---- MODULE Spec2Model ----
(***************************************************************************)
(* A model of the gfx_tutorial programs: every tutorial main is a linear   *)
(* script (setup, render loop, teardown) over GLFW, GLEW and OpenGL.       *)
(* Main (Spec) walks one program's script step by step; the other          *)
(* specifications apply the pure computations of the later tutorials.      *)
(***************************************************************************)
EXTENDS Integers, Sequences, FiniteSets, TLC

(* ---------------------------------------------------------------------- *)
(* Bounds of the model                                                     *)
(* ---------------------------------------------------------------------- *)

\* render-loop iterations explored per run
MaxFrames == 2
\* key events delivered in one run
MaxEvents == 1
\* draw calls the driver queues before the CPU has to wait for the GPU
MaxInFlight == 1
\* alignUp is applied to arguments within this distance of 0 and of INT_MAX
MaxAlignArg == 8
\* the largest GL_UNIFORM_BUFFER_OFFSET_ALIGNMENT explored (OpenGL allows an
\* implementation at most 256)
MaxAlignment == 256

(* ---------------------------------------------------------------------- *)
(* The programs and what each one's main does, in source order             *)
(* ---------------------------------------------------------------------- *)

Programs ==
    {"t01", "dot", "tri", "t04", "t07", "t08",
     "t16", "t17", "t18", "t19", "t20", "t21"}

\* programs that call glewInit
UsesGlew(p) == p # "t01"

\* programs that install debugCallback with glDebugMessageCallback
UsesDebug(p) == p \in {"t07", "t08", "t16", "t17", "t18", "t19", "t20", "t21"}

\* programs whose per-frame data goes through a persistently mapped buffer
UsesUbo(p) == p \in {"t17", "t18", "t19", "t20", "t21"}

\* programs that set uniforms with glUniform* calls in the loop
UsesGlUniform(p) == p \in {"t07", "t08", "t16", "t17", "t18", "t19", "t20", "t21"}

\* programs that install a key callback
HasKeyCallback(p) == p \in {"t16", "t17", "t18", "t19", "t20", "t21"}

\* programs whose key callback also handles ESCAPE, A and S
HasUserData(p) == p \in {"t17", "t18", "t19", "t20", "t21"}

\* programs that advance the animation time t at the end of an iteration
HasTime(p) == p \notin {"t01", "dot", "tri", "t04"}

\* a main that forgot to make the window's context current
CommonSetupNoContext ==
    <<"glfwSetErrorCallback", "glfwInit", "windowHints", "glfwCreateWindow">>

CommonSetup ==
    <<"glfwSetErrorCallback", "glfwInit", "windowHints", "glfwCreateWindow",
      "glfwMakeContextCurrent">>

ShaderSetup == <<"loadVertexShader", "loadFragmentShader", "linkProgram">>

SetupScript(p) ==
    CASE p = "t01" -> CommonSetup \o <<"glState">>
      [] p \in {"dot", "tri"} ->
            CommonSetup \o <<"glewInit", "createVbo", "glState">>
      [] p = "t04" ->
            CommonSetup \o <<"glewInit">> \o ShaderSetup
                \o <<"createVbo", "glState">>
      [] p = "t07" ->
            CommonSetup \o <<"glewInit", "enableDebug">> \o ShaderSetup
                \o <<"createVbo", "createVao", "glState">>
      [] p = "t08" ->
            CommonSetup \o <<"glewInit", "enableDebug">> \o ShaderSetup
                \o <<"createVbo", "createIbo", "createVao", "glState",
                     "createCamera">>
      [] p = "t16" ->
            CommonSetup \o <<"glewInit", "enableDebug">> \o ShaderSetup
                \o <<"createVbo", "createIbo", "createVao", "glState",
                     "createCamera", "glfwSetKeyCallback", "loadTexture">>
      [] OTHER ->
            CommonSetup \o <<"glewInit", "enableDebug">> \o ShaderSetup
                \o <<"createVbo", "createIbo", "createUbo", "createVao",
                     "glState", "createCamera", "glfwSetKeyCallback",
                     "loadTexture">>

\* a loop that moves the camera and the time before it renders and polls
LoopScriptUpdateFirst(p) ==
    <<"endFrame", "writeUbo", "glClear", "setUniforms", "draw",
      "glfwSwapBuffers", "glfwPollEvents">>

\* a loop that draws before it has set the frame's uniforms
LoopScriptDrawFirst(p) ==
    <<"glClear", "draw", "writeUbo", "setUniforms", "glfwSwapBuffers",
      "glfwPollEvents", "endFrame">>

\* one iteration of the render loop, after the loop condition was checked
LoopScript(p) ==
    CASE p = "t01" -> <<"glClear", "glfwSwapBuffers", "glfwPollEvents">>
      [] p \in {"dot", "tri", "t04"} ->
            <<"glClear", "draw", "glfwSwapBuffers", "glfwPollEvents">>
      [] p \in {"t07", "t08"} ->
            <<"glClear", "setUniforms", "draw", "glfwSwapBuffers",
              "glfwPollEvents", "endFrame">>
      [] p = "t16" ->
            <<"glClear", "setUniforms", "draw", "glfwSwapBuffers",
              "glfwPollEvents", "endFrame">>
      [] OTHER ->
            <<"writeUbo", "glClear", "setUniforms", "draw", "glfwSwapBuffers",
              "glfwPollEvents", "endFrame">>

\* the GL objects the statements of the render loop name
LoopUses(p) ==
    CASE p = "t01" -> {}
      [] p \in {"dot", "tri"} -> {"vbo"}
      [] p = "t04" -> {"program", "vbo"}
      [] p = "t07" -> {"program", "vao"}
      [] p = "t08" -> {"program", "vao", "ibo"}
      [] p = "t16" -> {"program", "vao", "ibo", "texture"}
      [] OTHER -> {"program", "vao", "ibo", "ubo", "texture"}

\* a main that destroyed its window before it deleted its GL objects
TeardownScriptWindowFirst(p) ==
    <<"glfwDestroyWindow", "deleteVbo", "glfwTerminate", "return">>

TeardownScript(p) ==
    CASE p = "t01" -> <<"glfwDestroyWindow", "glfwTerminate", "return">>
      [] p \in {"dot", "tri"} ->
            <<"deleteVbo", "glfwDestroyWindow", "glfwTerminate", "return">>
      [] p = "t04" ->
            <<"deleteVbo", "deleteProgram", "glfwDestroyWindow",
              "glfwTerminate", "return">>
      [] p \in {"t07", "t08"} ->
            <<"deleteVao", "deleteVbo", "deleteProgram", "glfwDestroyWindow",
              "glfwTerminate", "return">>
      [] p = "t16" ->
            <<"releaseTexture", "deleteVao", "deleteVbo", "deleteIbo",
              "deleteProgram", "glfwDestroyWindow", "glfwTerminate", "return">>
      [] OTHER ->
            <<"releaseTexture", "deleteVao", "deleteVbo", "deleteIbo",
              "deleteUbo", "deleteProgram", "glfwDestroyWindow",
              "glfwTerminate", "return">>

(* ---------------------------------------------------------------------- *)
(* State                                                                   *)
(* ---------------------------------------------------------------------- *)

VARIABLES
    prog,             \* the program being run
    phase,            \* "setup", "loop", "teardown", "done", "terminated"
    ip,               \* next step of the phase's script (loop: 0 = condition)
    log,              \* the setup and teardown steps executed, in order
    thrown,           \* the step whose std::runtime_error left main, or "none"
    what,             \* the parts of the thrown error's message
    printed,          \* who wrote to std::cerr, in order
    errorCallbackSet, \* glfwSetErrorCallback(errorCallback) was called
    debugEnabled,     \* glDebugMessageCallback(debugCallback) was called
    keyCallbackSet,   \* glfwSetKeyCallback was called
    window,           \* "null", "open", "destroyed"
    created,          \* GL objects created so far
    deleted,          \* GL objects deleted, in order
    filesRead,        \* paths opened for reading, in order
    shouldClose,      \* the window's should-close flag
    camera,           \* gfx::Camera
    ambientIntensity, \* userData.ambientIntensity, in units of 0.05
    t,                \* animation time, in units of 0.01
    ubo,              \* the values last written for the shaders
    frameLog,         \* the statements of this iteration executed so far
    frame,            \* completed iterations
    gpuPending,       \* draw calls submitted that the GPU has not finished
    overlap,          \* a mapped-buffer write happened with a draw pending
    snapshot,         \* the camera and the ambient intensity at the end of
                      \* the last iteration (initially: as constructed)
    delivered,        \* the key events the key callback got so far: how many,
                      \* and whether one of them was for ESCAPE
    \* the pure computations, applied on their own (SpecAlign, SpecUbo)
    alignArgs,        \* <<a, b>>: the arguments of gfx::util::alignUp
    aligned,          \* <<>>, or <<r>> once alignUp has returned r
    uboPc,            \* next step of the uniform-buffer set-up
    uboAlignment,     \* GL_UNIFORM_BUFFER_OFFSET_ALIGNMENT as queried (0: not yet)
    shaderLayout,     \* per block: the offsets the linked program uses
    hostLayout,       \* per block: offsets and size of the C++ struct
    uboSizes,         \* per block: the size of its range in the buffer
    uboStorage,       \* the size given to glNamedBufferStorage (0: not yet)
    uboMapped,        \* per block: the offset of its mapped pointer
    uboBound,         \* per binding point: the range bound in the loop
    \* gfx::Camera, called on its own (SpecCamera, SpecMoves)
    gfxCamera,        \* the camera object
    camCall,          \* the last call made on it
    moves,            \* the last two update calls: what was pressed, the
                      \* step size, and _pos before and after
    \* the key callback and the frame upload on their own (SpecKeys)
    keyLog,           \* the key events delivered so far: <<key, action>>
    \* geometry set-up and the draw call (SpecGeometry)
    geoPc,            \* position in the geometry script (0: not started)
    loopI,            \* i of the normal-accumulation loop
    idx,              \* <<idx0, idx1, idx2>> once the iteration has read them
    points,           \* per point: the triangles added to its normal
    outOfBounds,      \* some read of indices or points was outside its array
    vboBytes,         \* size given to glNamedBufferData(vbo, ...)
    iboBytes,         \* size given to glNamedBufferData(ibo, ...)
    vaoAttribs,       \* per attribute set up: components and relative offset
    vertexStride,     \* stride given to glBindVertexBuffer
    drawCount,        \* count given to glDrawElements / glDrawArrays
    \* the per-frame writes to the mapped blocks (SpecLights)
    lightPc,          \* position in the frame's statements (1: first)
    written,          \* the members written so far in this frame
    lightFrame,       \* frames drawn
    lightCounts,      \* numPointLights / numSpotLights as the block holds them
    \* gfx::Texture objects (SpecTexture)
    textures,         \* per object: alive or not, _handle, _target
    genTextures,      \* the names glCreateTextures has handed out
    deletedTextures,  \* the names given to glDeleteTextures, in order
    texCall           \* the last call made on the objects

vars ==
    <<prog, phase, ip, log, thrown, what, printed, errorCallbackSet,
      debugEnabled, keyCallbackSet, window, created, deleted, filesRead,
      shouldClose, camera, ambientIntensity, t, ubo, frameLog, frame,
      gpuPending, overlap, snapshot, delivered,
      alignArgs, aligned, uboPc, uboAlignment, shaderLayout, hostLayout,
      uboSizes, uboStorage, uboMapped, uboBound, gfxCamera, camCall, moves,
      keyLog, geoPc, loopI, idx, points, outOfBounds, vboBytes, iboBytes,
      vaoAttribs, vertexStride, drawCount, lightPc, written, lightFrame,
      lightCounts, textures, genTextures, deletedTextures, texCall>>

camVars == <<gfxCamera, camCall, moves>>

keyVars == <<keyLog>>

geoVars ==
    <<geoPc, loopI, idx, points, outOfBounds, vboBytes, iboBytes, vaoAttribs,
      vertexStride, drawCount>>

lightVars == <<lightPc, written, lightFrame, lightCounts>>

texVars == <<textures, genTextures, deletedTextures, texCall>>

\* what only the small specifications at the end touch
extraVars == <<keyVars, geoVars, lightVars, texVars>>

\* what a main never touches
calcVars ==
    <<alignArgs, aligned, uboPc, uboAlignment, shaderLayout, hostLayout,
      uboSizes, uboStorage, uboMapped, uboBound, gfxCamera, camCall, moves,
      extraVars>>

(* ---------------------------------------------------------------------- *)
(* gfx::Camera (the default-constructed camera every main uses)            *)
(* ---------------------------------------------------------------------- *)

\* update(0.1F): positions are kept in units of the step size
StepSize == 1

\* a glm::vec3 whose components are NaN
NaNVec == <<>>

Cross(a, b) ==
    IF a = NaNVec \/ b = NaNVec THEN NaNVec
    ELSE <<a[2] * b[3] - a[3] * b[2],
           a[3] * b[1] - a[1] * b[3],
           a[1] * b[2] - a[2] * b[1]>>

Add(a, b) ==
    IF a = NaNVec \/ b = NaNVec THEN NaNVec
    ELSE <<a[1] + b[1], a[2] + b[2], a[3] + b[3]>>

\* a scaling that drops the sign of the factor
ScaleAbs(a, s) ==
    IF a = NaNVec THEN NaNVec
    ELSE LET m == IF s < 0 THEN -s ELSE s
         IN  <<a[1] * m, a[2] * m, a[3] * m>>

Scale(a, s) ==
    IF a = NaNVec THEN NaNVec ELSE <<a[1] * s, a[2] * s, a[3] * s>>

Sign(x) == IF x > 0 THEN 1 ELSE IF x < 0 THEN -1 ELSE 0

\* glm::normalize(v) = v * inversesqrt(dot(v, v)) on the vectors the cameras
\* here produce: a vector along one axis becomes the unit vector of that
\* axis; the zero vector becomes 0 * inf = NaN in every component
Normalize(v) ==
    IF v = NaNVec \/ v = <<0, 0, 0>> THEN NaNVec
    ELSE <<Sign(v[1]), Sign(v[2]), Sign(v[3])>>

CameraInit ==
    [pos |-> <<0, 0, 0>>, target |-> <<0, 0, -1>>, up |-> <<0, 1, 0>>,
     upPressed |-> FALSE, downPressed |-> FALSE,
     leftPressed |-> FALSE, rightPressed |-> FALSE]

GLFW_PRESS == "PRESS"
GLFW_RELEASE == "RELEASE"
GLFW_REPEAT == "REPEAT"

Keys == {"UP", "DOWN", "LEFT", "RIGHT", "ESCAPE", "A", "S", "SPACE"}
Actions == {GLFW_PRESS, GLFW_RELEASE, GLFW_REPEAT}

\* an onKeyboard for which a repeated key is still a pressed key
OnKeyboardHeld(c, key, action) ==
    CASE key = "UP" -> [c EXCEPT !.upPressed = (GLFW_RELEASE # action)]
      [] key = "DOWN" -> [c EXCEPT !.downPressed = (GLFW_RELEASE # action)]
      [] key = "LEFT" -> [c EXCEPT !.leftPressed = (GLFW_RELEASE # action)]
      [] key = "RIGHT" -> [c EXCEPT !.rightPressed = (GLFW_RELEASE # action)]
      [] OTHER -> c

\* an onKeyboard that lets go of every other key
OnKeyboardExclusive(c, key, action) ==
    [c EXCEPT !.upPressed = (key = "UP" /\ GLFW_PRESS = action),
              !.downPressed = (key = "DOWN" /\ GLFW_PRESS = action),
              !.leftPressed = (key = "LEFT" /\ GLFW_PRESS = action),
              !.rightPressed = (key = "RIGHT" /\ GLFW_PRESS = action)]

OnKeyboard(cam, key, action) ==
    CASE key = "UP" -> [cam EXCEPT !.upPressed = (GLFW_PRESS = action)]
      [] key = "DOWN" -> [cam EXCEPT !.downPressed = (GLFW_PRESS = action)]
      [] key = "LEFT" -> [cam EXCEPT !.leftPressed = (GLFW_PRESS = action)]
      [] key = "RIGHT" -> [cam EXCEPT !.rightPressed = (GLFW_PRESS = action)]
      [] OTHER -> cam

\* an update in which a lateral step adds to a forward or backward step
UpdateAdditive(c, stepSize) ==
    LET step1 == IF c.upPressed THEN Scale(c.target, stepSize)
                 ELSE IF c.downPressed THEN Scale(c.target, -stepSize)
                 ELSE <<0, 0, 0>>
        step2 == IF c.leftPressed
                 THEN Scale(Normalize(Cross(c.target, c.up)), stepSize)
                 ELSE IF c.rightPressed
                 THEN Scale(Normalize(Cross(c.up, c.target)), stepSize)
                 ELSE <<0, 0, 0>>
    IN  [c EXCEPT !.pos = Add(Add(c.pos, step1), step2)]

Update(cam, stepSize) ==
    LET step0 == <<0, 0, 0>>
        step1 == IF cam.upPressed THEN Scale(cam.target, stepSize)
                 ELSE IF cam.downPressed THEN Scale(cam.target, -stepSize)
                 ELSE step0
        step2 == IF cam.leftPressed
                 THEN Scale(Normalize(Cross(cam.target, cam.up)), stepSize)
                 ELSE IF cam.rightPressed
                 THEN Scale(Normalize(Cross(cam.up, cam.target)), stepSize)
                 ELSE step1
    IN  [cam EXCEPT !.pos = Add(cam.pos, step2)]

\* userData.ambientIntensity as set before the key callback is installed
AmbientInit(p) == IF p = "t17" THEN 10 ELSE 2

\* a key callback without the case for GLFW_KEY_ESCAPE
KeyCallbackNoEscape(p, s, key, action) ==
    [s EXCEPT !.camera = s.camera]

\* a key callback that changes the ambient intensity on a press only
KeyCallbackPressOnly(p, s, key, action) ==
    LET cam == OnKeyboard(s.camera, key, action)
    IN  IF ~HasUserData(p)
        THEN [s EXCEPT !.camera = cam]
        ELSE CASE key = "ESCAPE" ->
                    [s EXCEPT !.camera = cam, !.shouldClose = TRUE]
               [] key = "A" /\ action = GLFW_PRESS ->
                    [s EXCEPT !.camera = cam, !.ambient = s.ambient + 1]
               [] key = "S" /\ action = GLFW_PRESS ->
                    [s EXCEPT !.camera = cam, !.ambient = s.ambient - 1]
               [] OTHER -> [s EXCEPT !.camera = cam]

\* The key callback of a main, applied to what it can change
KeyCallback(p, s, key, action) ==
    LET cam == OnKeyboard(s.camera, key, action)
    IN  IF ~HasUserData(p)
        THEN [s EXCEPT !.camera = cam]
        ELSE CASE key = "ESCAPE" ->
                    [s EXCEPT !.camera = cam, !.shouldClose = TRUE]
               [] key = "A" ->
                    [s EXCEPT !.camera = cam, !.ambient = s.ambient + 1]
               [] key = "S" ->
                    [s EXCEPT !.camera = cam, !.ambient = s.ambient - 1]
               [] OTHER -> [s EXCEPT !.camera = cam]

(* ---------------------------------------------------------------------- *)
(* Initial state: main has not run its first statement                     *)
(* ---------------------------------------------------------------------- *)

\* the arguments <<pos, target, up>> the three-argument constructor is
\* called with: a camera looking along +x from above the origin, and one
\* whose target and up are parallel
CtorArgs ==
    {<<<<0, 1, 0>>, <<2, 0, 0>>, <<0, 1, 0>>>>,
     <<<<0, 0, 0>>, <<0, 0, -1>>, <<0, 0, -3>>>>}

\* Camera(pos, target, up)
CameraOf(pos, target, up) ==
    [pos |-> pos, target |-> Normalize(target), up |-> Normalize(up),
     upPressed |-> FALSE, downPressed |-> FALSE,
     leftPressed |-> FALSE, rightPressed |-> FALSE]

NoCall == [op |-> "construct", key |-> "none", action |-> "none", stepSize |-> 0]

\* a camera nobody calls
CamAtRest ==
    /\ gfxCamera = CameraInit
    /\ camCall = NoCall
    /\ moves = <<>>

\* no key event delivered on its own
KeysAtRest == keyLog = <<>>

\* no geometry set up
GeoAtRest ==
    /\ geoPc = 0
    /\ loopI = 0
    /\ idx = <<>>
    /\ points = <<>>
    /\ outOfBounds = FALSE
    /\ vboBytes = 0
    /\ iboBytes = 0
    /\ vaoAttribs = <<>>
    /\ vertexStride = 0
    /\ drawCount = 0

\* no block member written
LightsAtRest ==
    /\ lightPc = 0
    /\ written = {}
    /\ lightFrame = 0
    /\ lightCounts = <<>>

\* no gfx::Texture object
TexAtRest ==
    /\ textures = <<>>
    /\ genTextures = 0
    /\ deletedTextures = <<>>
    /\ texCall = <<"none">>

ExtraAtRest ==
    /\ KeysAtRest
    /\ GeoAtRest
    /\ LightsAtRest
    /\ TexAtRest

\* the pure computations at rest
InitCalc ==
    /\ CamAtRest
    /\ ExtraAtRest
    /\ alignArgs = <<0, 1>>
    /\ aligned = <<>>
    /\ uboPc = 0
    /\ uboAlignment = 0
    /\ shaderLayout = <<>>
    /\ hostLayout = <<>>
    /\ uboSizes = <<>>
    /\ uboStorage = 0
    /\ uboMapped = <<>>
    /\ uboBound = <<>>

InitMain ==
    /\ phase = "setup"
    /\ ip = 1
    /\ log = <<>>
    /\ thrown = "none"
    /\ what = <<>>
    /\ printed = <<>>
    /\ errorCallbackSet = FALSE
    /\ debugEnabled = FALSE
    /\ keyCallbackSet = FALSE
    /\ window = "null"
    /\ created = {}
    /\ deleted = <<>>
    /\ filesRead = <<>>
    /\ shouldClose = FALSE
    /\ camera = CameraInit
    /\ ambientIntensity = AmbientInit(prog)
    /\ t = 0
    /\ ubo = [ambient |-> 0, eye |-> <<0, 0, 0>>, t |-> 0]
    /\ frameLog = <<>>
    /\ frame = 0
    /\ gpuPending = 0
    /\ overlap = FALSE
    /\ snapshot = [camera |-> CameraInit, ambient |-> AmbientInit(prog)]
    /\ delivered = [count |-> 0, escape |-> FALSE]

Init ==
    /\ prog \in Programs
    /\ InitMain
    /\ InitCalc

(* ---------------------------------------------------------------------- *)
(* Control                                                                 *)
(* ---------------------------------------------------------------------- *)

SetupAt(name) ==
    /\ phase = "setup"
    /\ ip <= Len(SetupScript(prog))
    /\ SetupScript(prog)[ip] = name

\* the statement completed normally: main goes on with the next one
Proceed(name) ==
    /\ log' = Append(log, name)
    /\ IF ip = Len(SetupScript(prog))
       THEN phase' = "loop" /\ ip' = 0
       ELSE phase' = phase /\ ip' = ip + 1
    /\ UNCHANGED <<thrown, what>>

\* a main that caught the error and went on with its next statement
ThrowCaught(cause, msg) ==
    /\ thrown' = cause
    /\ what' = msg
    /\ log' = log
    /\ IF ip = Len(SetupScript(prog))
       THEN phase' = "loop" /\ ip' = 0
       ELSE phase' = phase /\ ip' = ip + 1

\* throw std::runtime_error(msg): nothing in any main catches it, so the
\* process ends in std::terminate without running another statement of main
Throw(cause, msg) ==
    /\ thrown' = cause
    /\ what' = msg
    /\ phase' = "terminated"
    /\ UNCHANGED <<ip, log>>

\* a GLFW that fails without reporting anything
GlfwErrorSilent == printed

\* GLFW reports an error through the installed error callback, which writes
\* "GLFW Error(<code>): <description>" to std::cerr
GlfwError == IF errorCallbackSet THEN Append(printed, "errorCallback") ELSE printed

loopVars ==
    <<shouldClose, camera, ambientIntensity, t, ubo, frameLog, frame,
      gpuPending, overlap, snapshot, delivered>>

(* ---------------------------------------------------------------------- *)
(* Setup                                                                   *)
(* ---------------------------------------------------------------------- *)

GlfwSetErrorCallback ==
    /\ SetupAt("glfwSetErrorCallback")
    /\ errorCallbackSet' = TRUE
    /\ Proceed("glfwSetErrorCallback")
    /\ UNCHANGED <<prog, printed, debugEnabled, keyCallbackSet, window,
                   created, deleted, filesRead>>
    /\ UNCHANGED loopVars
    /\ UNCHANGED calcVars

GlfwInit ==
    /\ SetupAt("glfwInit")
    /\ \E ok \in BOOLEAN :
          IF ok
          THEN Proceed("glfwInit") /\ UNCHANGED printed
          ELSE /\ printed' = GlfwError
               /\ Throw("glfwInit", <<"Failed to init GLFW!">>)
    /\ UNCHANGED <<prog, errorCallbackSet, debugEnabled, keyCallbackSet,
                   window, created, deleted, filesRead>>
    /\ UNCHANGED loopVars
    /\ UNCHANGED calcVars

WindowHints ==
    /\ SetupAt("windowHints")
    /\ Proceed("windowHints")
    /\ UNCHANGED <<prog, printed, errorCallbackSet, debugEnabled,
                   keyCallbackSet, window, created, deleted, filesRead>>
    /\ UNCHANGED loopVars
    /\ UNCHANGED calcVars

GlfwCreateWindow ==
    /\ SetupAt("glfwCreateWindow")
    /\ \E ok \in BOOLEAN :
          IF ok
          THEN /\ window' = "open"
               /\ Proceed("glfwCreateWindow")
               /\ UNCHANGED printed
          ELSE /\ printed' = GlfwError
               /\ Throw("glfwCreateWindow", <<"Failed to create GLFW window!">>)
               /\ UNCHANGED window
    /\ UNCHANGED <<prog, errorCallbackSet, debugEnabled, keyCallbackSet,
                   created, deleted, filesRead>>
    /\ UNCHANGED loopVars
    /\ UNCHANGED calcVars

\* glfwMakeContextCurrent(window); glfwSwapInterval(1)
GlfwMakeContextCurrent ==
    /\ SetupAt("glfwMakeContextCurrent")
    /\ Proceed("glfwMakeContextCurrent")
    /\ UNCHANGED <<prog, printed, errorCallbackSet, debugEnabled,
                   keyCallbackSet, window, created, deleted, filesRead>>
    /\ UNCHANGED loopVars
    /\ UNCHANGED calcVars

GlewInit ==
    /\ SetupAt("glewInit")
    /\ \E ok \in BOOLEAN :
          IF ok
          THEN Proceed("glewInit")
          ELSE Throw("glewInit", <<"Failed to init GLEW: ", "glewGetErrorString">>)
    /\ UNCHANGED <<prog, printed, errorCallbackSet, debugEnabled,
                   keyCallbackSet, window, created, deleted, filesRead>>
    /\ UNCHANGED loopVars
    /\ UNCHANGED calcVars

\* glEnable(GL_DEBUG_OUTPUT); glDebugMessageCallback(debugCallback, nullptr)
EnableDebug ==
    /\ SetupAt("enableDebug")
    /\ debugEnabled' = TRUE
    /\ Proceed("enableDebug")
    /\ UNCHANGED <<prog, printed, errorCallbackSet, keyCallbackSet, window,
                   created, deleted, filesRead>>
    /\ UNCHANGED loopVars
    /\ UNCHANGED calcVars

\* what the driver may write through debugCallback when a GL call fails
DebugOutput ==
    IF debugEnabled THEN {printed, Append(printed, "debugCallback")} ELSE {printed}

\* what loadShader does with the info log of a failed compile
CompileFailure ==
    /\ printed' \in DebugOutput
    /\ Throw("compile",
             <<"Error compiling shader: ", "infoLog", "\nSource: ", "src">>)

LoadShader(step, object) ==
    /\ SetupAt(step)
    /\ created' = created \cup {object}
    /\ \E success \in BOOLEAN :
          IF success
          THEN Proceed(step) /\ UNCHANGED printed
          ELSE CompileFailure
    /\ UNCHANGED <<prog, errorCallbackSet, debugEnabled, keyCallbackSet,
                   window, deleted, filesRead>>
    /\ UNCHANGED loopVars
    /\ UNCHANGED calcVars

LoadVertexShader == LoadShader("loadVertexShader", "vertexShader")

LoadFragmentShader == LoadShader("loadFragmentShader", "fragmentShader")

\* what linkProgram does with the info log of a failed link
LinkFailure ==
    /\ printed' \in DebugOutput
    /\ Throw("link", <<"Error linking program: ", "infoLog">>)

LinkProgram ==
    /\ SetupAt("linkProgram")
    /\ created' = created \cup {"program"}
    /\ \E success \in BOOLEAN :
          IF success
          THEN Proceed("linkProgram") /\ UNCHANGED printed
          ELSE LinkFailure
    /\ UNCHANGED <<prog, errorCallbackSet, debugEnabled, keyCallbackSet,
                   window, deleted, filesRead>>
    /\ UNCHANGED loopVars
    /\ UNCHANGED calcVars

\* glCreateBuffers / glGenBuffers, glCreateVertexArrays and their set-up calls
CreateObject(step, object) ==
    /\ SetupAt(step)
    /\ created' = created \cup {object}
    /\ Proceed(step)
    /\ UNCHANGED <<prog, printed, errorCallbackSet, debugEnabled,
                   keyCallbackSet, window, deleted, filesRead>>
    /\ UNCHANGED loopVars
    /\ UNCHANGED calcVars

CreateVbo == CreateObject("createVbo", "vbo")

CreateIbo == CreateObject("createIbo", "ibo")

\* glCreateBuffers, glNamedBufferStorage, glMapNamedBufferRange
CreateUbo == CreateObject("createUbo", "ubo")

CreateVao == CreateObject("createVao", "vao")

\* glGetUniformLocation / glGetUniformBlockIndex, t = 0, glClearColor,
\* glPointSize / glEnable(GL_DEPTH_TEST)
GlState ==
    /\ SetupAt("glState")
    /\ Proceed("glState")
    /\ UNCHANGED <<prog, printed, errorCallbackSet, debugEnabled,
                   keyCallbackSet, window, created, deleted, filesRead>>
    /\ UNCHANGED loopVars
    /\ UNCHANGED calcVars

\* the camera (and, from tutorial 17 on, userData) is constructed
CreateCamera ==
    /\ SetupAt("createCamera")
    /\ camera' = CameraInit
    /\ ambientIntensity' = AmbientInit(prog)
    /\ snapshot' = [camera |-> CameraInit, ambient |-> AmbientInit(prog)]
    /\ Proceed("createCamera")
    /\ UNCHANGED <<prog, printed, errorCallbackSet, debugEnabled,
                   keyCallbackSet, window, created, deleted, filesRead>>
    /\ UNCHANGED <<shouldClose, t, ubo, frameLog, frame, gpuPending, overlap,
                   delivered>>
    /\ UNCHANGED calcVars

\* glfwSetWindowUserPointer; glfwSetKeyCallback
GlfwSetKeyCallback ==
    /\ SetupAt("glfwSetKeyCallback")
    /\ keyCallbackSet' = TRUE
    /\ Proceed("glfwSetKeyCallback")
    /\ UNCHANGED <<prog, printed, errorCallbackSet, debugEnabled, window,
                   created, deleted, filesRead>>
    /\ UNCHANGED loopVars
    /\ UNCHANGED calcVars

\* a main that named another file
TexturePathOther == "data/other.png"

\* the one file name any main passes to gfx::Texture
TexturePath == "data/test.png"

\* std::make_unique<gfx::Texture>(GL_TEXTURE_2D, "data/test.png"):
\* the constructor opens and reads the file; it throws when the read fails
\* (or, for a file that cannot be opened, when the buffer of tellg() = -1
\* bytes is allocated)
LoadTexture ==
    /\ SetupAt("loadTexture")
    /\ filesRead' = Append(filesRead, TexturePath)
    /\ \E ok \in BOOLEAN :
          IF ok
          THEN /\ created' = created \cup {"texture"}
               /\ Proceed("loadTexture")
          ELSE /\ \E msg \in {<<"Failed to load file: ", TexturePath>>,
                             <<"std::bad_alloc">>} :
                       Throw("loadTexture", msg)
               /\ UNCHANGED created
    /\ UNCHANGED <<prog, printed, errorCallbackSet, debugEnabled,
                   keyCallbackSet, window, deleted>>
    /\ UNCHANGED loopVars
    /\ UNCHANGED calcVars

(* ---------------------------------------------------------------------- *)
(* The render loop                                                         *)
(* ---------------------------------------------------------------------- *)

setupVars ==
    <<prog, log, thrown, what, printed, errorCallbackSet, debugEnabled,
      keyCallbackSet, window, created, deleted, filesRead>>

LoopAt(name) ==
    /\ phase = "loop"
    /\ ip >= 1
    /\ LoopScript(prog)[ip] = name

LastOfLoop == ip = Len(LoopScript(prog))

\* the statement completed: on to the next one, or back to the loop condition
\* (cam and ambient are the camera and the ambient intensity the iteration
\* leaves behind when this was its last statement)
NextInLoop(name, cam, ambient) ==
    /\ phase' = phase
    /\ frameLog' = Append(frameLog, name)
    /\ IF LastOfLoop
       THEN /\ ip' = 0
            /\ frame' = frame + 1
            /\ snapshot' = [camera |-> cam, ambient |-> ambient]
       ELSE /\ ip' = ip + 1
            /\ UNCHANGED <<frame, snapshot>>

\* while (!glfwWindowShouldClose(window))
LoopCheck ==
    /\ phase = "loop"
    /\ ip = 0
    /\ IF shouldClose
       THEN /\ phase' = "teardown"
            /\ ip' = 1
            /\ UNCHANGED frameLog
       ELSE /\ frame < MaxFrames
            /\ phase' = phase
            /\ ip' = 1
            /\ frameLog' = <<>>
    /\ UNCHANGED setupVars
    /\ UNCHANGED calcVars
    /\ UNCHANGED delivered
    /\ UNCHANGED <<shouldClose, camera, ambientIntensity, t, ubo, frame,
                   gpuPending, overlap, snapshot>>

\* the values a frame's uniform data is computed from
FrameData == [ambient |-> ambientIntensity, eye |-> camera.pos, t |-> t]

\* the writes through the persistently mapped pointer(s): pData->... = ...
WriteUbo ==
    /\ LoopAt("writeUbo")
    /\ ubo' = FrameData
    /\ overlap' = (overlap \/ gpuPending > 0)
    /\ NextInLoop("writeUbo", camera, ambientIntensity)
    /\ UNCHANGED setupVars
    /\ UNCHANGED calcVars
    /\ UNCHANGED delivered
    /\ UNCHANGED <<shouldClose, camera, ambientIntensity, t, gpuPending>>

GlClear ==
    /\ LoopAt("glClear")
    /\ NextInLoop("glClear", camera, ambientIntensity)
    /\ UNCHANGED setupVars
    /\ UNCHANGED calcVars
    /\ UNCHANGED delivered
    /\ UNCHANGED <<shouldClose, camera, ambientIntensity, t, ubo, gpuPending,
                   overlap>>

\* glUseProgram and the glUniform* / glBindBufferBase / glBindBufferRange
\* calls; without a mapped buffer the frame's matrix is uploaded here
SetUniforms ==
    /\ LoopAt("setUniforms")
    /\ ubo' = IF UsesUbo(prog) THEN ubo ELSE FrameData
    /\ NextInLoop("setUniforms", camera, ambientIntensity)
    /\ UNCHANGED setupVars
    /\ UNCHANGED calcVars
    /\ UNCHANGED delivered
    /\ UNCHANGED <<shouldClose, camera, ambientIntensity, t, gpuPending,
                   overlap>>

\* the bindings and the one glDrawArrays / glDrawElements of the iteration;
\* the command is queued for the GPU
Draw ==
    /\ LoopAt("draw")
    /\ gpuPending < MaxInFlight
    /\ gpuPending' = gpuPending + 1
    /\ NextInLoop("draw", camera, ambientIntensity)
    /\ UNCHANGED setupVars
    /\ UNCHANGED calcVars
    /\ UNCHANGED delivered
    /\ UNCHANGED <<shouldClose, camera, ambientIntensity, t, ubo, overlap>>

GlfwSwapBuffers ==
    /\ LoopAt("glfwSwapBuffers")
    /\ NextInLoop("glfwSwapBuffers", camera, ambientIntensity)
    /\ UNCHANGED setupVars
    /\ UNCHANGED calcVars
    /\ UNCHANGED delivered
    /\ UNCHANGED <<shouldClose, camera, ambientIntensity, t, ubo, gpuPending,
                   overlap>>

\* a GLFW that called the key callback from anywhere in the loop, as a
\* second thread would
CallbacksAnywhere ==
    /\ phase = "loop"
    /\ ip >= 1

\* GLFW calls the window's callbacks from within glfwPollEvents, on the
\* thread that called it: main is in its glfwPollEvents statement
CallbacksMayRun == LoopAt("glfwPollEvents")

\* glfwPollEvents finds a key event in the queue and calls the key callback
KeyEvent ==
    /\ CallbacksMayRun
    /\ keyCallbackSet
    /\ delivered.count < MaxEvents
    /\ \E key \in Keys, action \in Actions :
          LET s0 == [camera |-> camera, ambient |-> ambientIntensity,
                     shouldClose |-> shouldClose]
              s1 == KeyCallback(prog, s0, key, action)
          IN  /\ delivered' = [count |-> delivered.count + 1,
                                escape |-> (delivered.escape \/ key = "ESCAPE")]
              /\ camera' = s1.camera
              /\ ambientIntensity' = s1.ambient
              /\ shouldClose' = s1.shouldClose
    /\ UNCHANGED setupVars
    /\ UNCHANGED calcVars
    /\ UNCHANGED <<phase, ip, t, ubo, frameLog, frame, gpuPending, overlap,
                   snapshot>>

\* glfwPollEvents returns, the queue being empty; a close request of the
\* user, if there was one, has set the should-close flag
GlfwPollEvents ==
    /\ LoopAt("glfwPollEvents")
    /\ \E close \in BOOLEAN : shouldClose' = (shouldClose \/ close)
    /\ NextInLoop("glfwPollEvents", camera, ambientIntensity)
    /\ UNCHANGED setupVars
    /\ UNCHANGED calcVars
    /\ UNCHANGED delivered
    /\ UNCHANGED <<camera, ambientIntensity, t, ubo, gpuPending, overlap>>

\* camera.update(0.1F) where the camera has one; t += 0.01F
EndFrame ==
    /\ LoopAt("endFrame")
    /\ camera' = IF HasKeyCallback(prog) THEN Update(camera, StepSize) ELSE camera
    /\ t' = t + 1
    /\ NextInLoop("endFrame", camera', ambientIntensity)
    /\ UNCHANGED setupVars
    /\ UNCHANGED calcVars
    /\ UNCHANGED delivered
    /\ UNCHANGED <<shouldClose, ambientIntensity, ubo, gpuPending, overlap>>

\* the GPU finishes the oldest queued draw call, at a time of its own
GpuComplete ==
    /\ phase \in {"loop", "teardown"}
    /\ gpuPending > 0
    /\ gpuPending' = gpuPending - 1
    /\ UNCHANGED setupVars
    /\ UNCHANGED calcVars
    /\ UNCHANGED delivered
    /\ UNCHANGED <<phase, ip>>
    /\ UNCHANGED <<shouldClose, camera, ambientIntensity, t, ubo, frameLog,
                   frame, overlap, snapshot>>

(* ---------------------------------------------------------------------- *)
(* Teardown                                                                *)
(* ---------------------------------------------------------------------- *)

TeardownAt(name) ==
    /\ phase = "teardown"
    /\ ip <= Len(TeardownScript(prog))
    /\ TeardownScript(prog)[ip] = name

Finish(name) ==
    /\ log' = Append(log, name)
    /\ IF ip = Len(TeardownScript(prog))
       THEN phase' = "done" /\ ip' = ip
       ELSE phase' = phase /\ ip' = ip + 1

\* pTexture = nullptr: ~Texture deletes the handle
ReleaseTexture ==
    /\ TeardownAt("releaseTexture")
    /\ deleted' = Append(deleted, "texture")
    /\ Finish("releaseTexture")
    /\ UNCHANGED <<prog, thrown, what, printed, errorCallbackSet,
                   debugEnabled, keyCallbackSet, window, created, filesRead>>
    /\ UNCHANGED loopVars
    /\ UNCHANGED calcVars

DeleteObject(step, object) ==
    /\ TeardownAt(step)
    /\ deleted' = Append(deleted, object)
    /\ Finish(step)
    /\ UNCHANGED <<prog, thrown, what, printed, errorCallbackSet,
                   debugEnabled, keyCallbackSet, window, created, filesRead>>
    /\ UNCHANGED loopVars
    /\ UNCHANGED calcVars

DeleteVao == DeleteObject("deleteVao", "vao")

DeleteVbo == DeleteObject("deleteVbo", "vbo")

DeleteIbo == DeleteObject("deleteIbo", "ibo")

DeleteUbo == DeleteObject("deleteUbo", "ubo")

DeleteProgram == DeleteObject("deleteProgram", "program")

GlfwDestroyWindow ==
    /\ TeardownAt("glfwDestroyWindow")
    /\ window' = "destroyed"
    /\ Finish("glfwDestroyWindow")
    /\ UNCHANGED <<prog, thrown, what, printed, errorCallbackSet,
                   debugEnabled, keyCallbackSet, created, deleted, filesRead>>
    /\ UNCHANGED loopVars
    /\ UNCHANGED calcVars

GlfwTerminate ==
    /\ TeardownAt("glfwTerminate")
    /\ Finish("glfwTerminate")
    /\ UNCHANGED <<prog, thrown, what, printed, errorCallbackSet,
                   debugEnabled, keyCallbackSet, window, created, deleted,
                   filesRead>>
    /\ UNCHANGED loopVars
    /\ UNCHANGED calcVars

Return ==
    /\ TeardownAt("return")
    /\ Finish("return")
    /\ UNCHANGED <<prog, thrown, what, printed, errorCallbackSet,
                   debugEnabled, keyCallbackSet, window, created, deleted,
                   filesRead>>
    /\ UNCHANGED loopVars
    /\ UNCHANGED calcVars

(* ---------------------------------------------------------------------- *)
(* The specification of a main                                             *)
(* ---------------------------------------------------------------------- *)

Next ==
    \/ GlfwSetErrorCallback
    \/ GlfwInit
    \/ WindowHints
    \/ GlfwCreateWindow
    \/ GlfwMakeContextCurrent
    \/ GlewInit
    \/ EnableDebug
    \/ LoadVertexShader
    \/ LoadFragmentShader
    \/ LinkProgram
    \/ CreateVbo
    \/ CreateIbo
    \/ CreateUbo
    \/ CreateVao
    \/ GlState
    \/ CreateCamera
    \/ GlfwSetKeyCallback
    \/ LoadTexture
    \/ LoopCheck
    \/ WriteUbo
    \/ GlClear
    \/ SetUniforms
    \/ Draw
    \/ GlfwSwapBuffers
    \/ KeyEvent
    \/ GlfwPollEvents
    \/ EndFrame
    \/ GpuComplete
    \/ ReleaseTexture
    \/ DeleteVao
    \/ DeleteVbo
    \/ DeleteIbo
    \/ DeleteUbo
    \/ DeleteProgram
    \/ GlfwDestroyWindow
    \/ GlfwTerminate
    \/ Return

Spec == Init /\ [][Next]_vars

Range(s) == {s[i] : i \in 1..Len(s)}

(* ---------------------------------------------------------------------- *)
(* gfx::util::alignUp on its own (SpecAlign)                               *)
(* ---------------------------------------------------------------------- *)

\* GLsizei is a 32-bit signed int
IntMax == 2147483647

\* an alignUp that rounds down
alignDown(a, b) == (a \div b) * b

\* return (a + b - 1) / b * b;  (both operands non-negative here, where the
\* truncating division of C++ is \div)
alignUp(a, b) == ((a + b - 1) \div b) * b

\* a + b - 1 does not fit a GLsizei
Overflows(a, b) == a - 1 > IntMax - b

\* signed overflow and division by zero are undefined: the call may return
\* any GLsizei (a sample of them)
UndefinedResults == {-IntMax - 1, -1, 0, 1, IntMax}

AlignUpOutcomes(a, b) ==
    IF b = 0 \/ Overflows(a, b) THEN UndefinedResults ELSE {alignUp(a, b)}

\* the arguments tried: small ones and ones next to INT_MAX
AlignInputs == (0..MaxAlignArg) \cup {IntMax - k : k \in 0..MaxAlignArg}

InitAlign ==
    /\ prog = "t21"
    /\ InitMain
    /\ CamAtRest
    /\ ExtraAtRest
    /\ alignArgs \in AlignInputs \X AlignInputs
    /\ aligned = <<>>
    /\ uboPc = 0
    /\ uboAlignment = 0
    /\ shaderLayout = <<>>
    /\ hostLayout = <<>>
    /\ uboSizes = <<>>
    /\ uboStorage = 0
    /\ uboMapped = <<>>
    /\ uboBound = <<>>

mainVars ==
    <<prog, phase, ip, log, thrown, what, printed, errorCallbackSet,
      debugEnabled, keyCallbackSet, window, created, deleted, filesRead,
      shouldClose, camera, ambientIntensity, t, ubo, frameLog, frame,
      gpuPending, overlap, snapshot, delivered>>

uboVars ==
    <<uboPc, uboAlignment, shaderLayout, hostLayout, uboSizes, uboStorage,
      uboMapped, uboBound>>

\* gfx::util::alignUp(a, b) is called and returns
AlignUpCall ==
    /\ aligned = <<>>
    /\ \E r \in AlignUpOutcomes(alignArgs[1], alignArgs[2]) : aligned' = <<r>>
    /\ UNCHANGED alignArgs
    /\ UNCHANGED mainVars
    /\ UNCHANGED uboVars
    /\ UNCHANGED camVars
    /\ UNCHANGED extraVars

NextAlign == AlignUpCall

SpecAlign == InitAlign /\ [][NextAlign]_vars

UboPrograms == {"t17", "t18", "t19", "t20", "t21"}

\* a member of type ty, and a member that is an array ty[n]
M(ty) == [ty |-> ty, n |-> 0]
Arr(ty, n) == [ty |-> ty, n |-> n]

\* const int MAX_POINT_LIGHTS / MAX_SPOT_LIGHTS of the fragment shaders
ShaderMaxPointLights == 8
ShaderMaxSpotLights == 8

\* const GLsizei MAX_POINT_LIGHTS / MAX_SPOT_LIGHTS of the mains
MAX_POINT_LIGHTS == 8
MAX_SPOT_LIGHTS == 8

\* struct PointLight / SpotLight of the shaders, PointLightT / SpotLightT
\* of the mains
StructMembers(ty) ==
    CASE ty = "PointLight" ->
            <<M("vec4"), M("vec4"), M("float"), M("float"), M("float"),
              M("float"), M("float")>>
      [] ty = "SpotLight" ->
            <<M("vec4"), M("vec4"), M("vec4"), M("float"), M("float"),
              M("float"), M("float"), M("float"), M("float")>>
      [] ty = "PointLightT" ->
            <<M("vec4"), M("vec4"), M("float"), M("float"), M("float"),
              M("float"), M("float")>>
      [] ty = "SpotLightT" ->
            <<M("vec4"), M("vec4"), M("vec4"), M("float"), M("float"),
              M("float"), M("float"), M("float"), M("float")>>
      [] OTHER -> <<>>

IsStruct(ty) == ty \in {"PointLight", "PointLightT", "SpotLight", "SpotLightT"}

\* alignas(sizeof(glm::vec4)) on PointLightT and SpotLightT
Alignas(ty) == IF ty \in {"PointLightT", "SpotLightT"} THEN 16 ELSE 1

\* uniform SunData / DirectionalLight { vec4 color; vec4 direction;
\* float ambientIntensity; float diffuseIntensity; }
ShaderSunMembers == <<M("vec4"), M("vec4"), M("float"), M("float")>>

\* uniform Material { float specularIntensity; float specularPower; }
ShaderMaterialMembers == <<M("float"), M("float")>>

\* the uniform blocks the shaders of a program declare
ShaderBlocks(p) ==
    CASE p = "t17" ->
            <<[name |-> "Data", binding |-> 0, std140 |-> FALSE,
               members |-> <<M("mat4"), M("vec4"), M("float")>>]>>
      [] p = "t18" ->
            <<[name |-> "CameraData", binding |-> 0, std140 |-> TRUE,
               members |-> <<M("mat4"), M("mat4")>>],
              [name |-> "SunData", binding |-> 1, std140 |-> TRUE,
               members |-> ShaderSunMembers]>>
      [] p = "t19" ->
            <<[name |-> "Data", binding |-> 0, std140 |-> TRUE,
               members |-> <<M("mat4"), M("mat4"), M("mat4"), M("vec4"),
                             M("vec4"), M("vec4"), M("float"), M("float"),
                             M("float"), M("float")>>]>>
      [] p = "t20" ->
            <<[name |-> "CameraData", binding |-> 0, std140 |-> TRUE,
               members |-> <<M("mat4"), M("mat4"), M("mat4"), M("vec4"),
                             M("int")>>],
              [name |-> "Material", binding |-> 1, std140 |-> TRUE,
               members |-> ShaderMaterialMembers],
              [name |-> "DirectionalLight", binding |-> 2, std140 |-> TRUE,
               members |-> ShaderSunMembers],
              [name |-> "PointLights", binding |-> 3, std140 |-> TRUE,
               members |-> <<Arr("PointLight", ShaderMaxPointLights)>>]>>
      [] OTHER ->
            <<[name |-> "CameraData", binding |-> 0, std140 |-> TRUE,
               members |-> <<M("mat4"), M("mat4"), M("mat4"), M("vec4"),
                             M("int"), M("int")>>],
              [name |-> "Material", binding |-> 1, std140 |-> TRUE,
               members |-> ShaderMaterialMembers],
              [name |-> "DirectionalLight", binding |-> 2, std140 |-> TRUE,
               members |-> ShaderSunMembers],
              [name |-> "PointLights", binding |-> 3, std140 |-> TRUE,
               members |-> <<Arr("PointLight", ShaderMaxPointLights)>>],
              [name |-> "SpotLights", binding |-> 4, std140 |-> TRUE,
               members |-> <<Arr("SpotLight", ShaderMaxSpotLights)>>]>>

BlockNames(p) == {ShaderBlocks(p)[i].name : i \in 1..Len(ShaderBlocks(p))}

BlockNamed(p, b) ==
    CHOOSE blk \in Range(ShaderBlocks(p)) : blk.name = b

\* the members of the C++ struct a main writes into the block:
\* UData, UBOCameraT, UBOMaterialT, UBOSunT, UBOPointLightsT, UBOSpotLightsT
HostMembers(p, b) ==
    CASE b = "Data" /\ p = "t17" -> <<M("mat4"), M("vec4"), M("float")>>
      [] b = "Data" ->
            <<M("mat4"), M("mat4"), M("mat4"), M("vec4"), M("vec4"),
              M("vec4"), M("float"), M("float"), M("float"), M("float")>>
      [] b = "CameraData" /\ p = "t18" -> <<M("mat4"), M("mat4")>>
      [] b = "CameraData" /\ p = "t20" ->
            <<M("mat4"), M("mat4"), M("mat4"), M("vec4"), M("int")>>
      [] b = "CameraData" ->
            <<M("mat4"), M("mat4"), M("mat4"), M("vec4"), M("int"), M("int")>>
      [] b = "Material" -> <<M("float"), M("float")>>
      [] b \in {"SunData", "DirectionalLight"} ->
            <<M("vec4"), M("vec4"), M("float"), M("float")>>
      [] b = "PointLights" -> <<Arr("PointLightT", MAX_POINT_LIGHTS)>>
      [] OTHER -> <<Arr("SpotLightT", MAX_SPOT_LIGHTS)>>

\* what a compiler does to place a member: the next multiple of a
PadTo(x, a) == ((x + a - 1) \div a) * a

Max(S) == CHOOSE x \in S : \A y \in S : y <= x

\* float, int, vec4 (4 floats), mat4 (4 columns of vec4)
ScalarSize(ty) ==
    CASE ty \in {"float", "int"} -> 4
      [] ty = "vec4" -> 16
      [] OTHER -> 64

\* the alignment of a type under the rules of the C++ compiler ("host":
\* glm's vectors and matrices are arrays of float), of std140 (vectors and
\* matrix columns aligned as vec4) and of an implementation that gives every
\* member a vec4 slot ("padded")
ScalarAlign(rules, ty) ==
    CASE rules = "host" -> 4
      [] rules = "padded" -> 16
      [] OTHER -> IF ty \in {"float", "int"} THEN 4 ELSE 16

StructAlign(rules, ty) ==
    LET ms == StructMembers(ty)
        m == Max({ScalarAlign(rules, ms[i].ty) : i \in 1..Len(ms)})
    IN  IF rules = "host" THEN Max({m, Alignas(ty)}) ELSE PadTo(m, 16)

AlignOf(rules, ty) ==
    IF IsStruct(ty) THEN StructAlign(rules, ty) ELSE ScalarAlign(rules, ty)

\* an array's elements are aligned as vec4 in a uniform block
MemberAlign(rules, m) ==
    IF m.n > 0 /\ rules # "host"
    THEN PadTo(AlignOf(rules, m.ty), 16)
    ELSE AlignOf(rules, m.ty)

RECURSIVE SizeOf(_, _)
RECURSIVE End(_, _, _)

\* the distance between two elements of an array of ty
Stride(rules, ty) ==
    IF rules = "host"
    THEN SizeOf(rules, ty)
    ELSE PadTo(SizeOf(rules, ty), PadTo(AlignOf(rules, ty), 16))

MemberSize(rules, m) ==
    IF m.n > 0 THEN m.n * Stride(rules, m.ty) ELSE SizeOf(rules, m.ty)

\* the offset of the k-th member of ms
Offset(rules, ms, k) ==
    PadTo(End(rules, ms, k - 1), MemberAlign(rules, ms[k]))

\* the end of the k-th member of ms
End(rules, ms, k) ==
    IF k = 0 THEN 0 ELSE Offset(rules, ms, k) + MemberSize(rules, ms[k])

SizeOf(rules, ty) ==
    IF IsStruct(ty)
    THEN PadTo(End(rules, StructMembers(ty), Len(StructMembers(ty))),
               StructAlign(rules, ty))
    ELSE ScalarSize(ty)

\* offsets, array strides (0: no array) and size of a sequence of members
Layout(rules, ms) ==
    [offsets |-> [k \in 1..Len(ms) |-> Offset(rules, ms, k)],
     strides |-> [k \in 1..Len(ms) |->
                     IF ms[k].n > 0 THEN Stride(rules, ms[k].ty) ELSE 0],
     size |-> PadTo(End(rules, ms, Len(ms)),
                    Max({MemberAlign(rules, ms[k]) : k \in 1..Len(ms)}))]

\* the set-up of the uniform buffer, in source order
UboScript(p) ==
    IF p \in {"t17", "t19"}
    THEN <<"link", "structs", "storage", "map", "bind">>
    ELSE <<"link", "structs", "queryAlignment", "sizes", "storage", "map",
           "bind">>

InitUbo ==
    /\ prog \in UboPrograms
    /\ InitMain
    /\ CamAtRest
    /\ ExtraAtRest
    /\ alignArgs = <<0, 1>>
    /\ aligned = <<>>
    /\ uboPc = 1
    /\ uboAlignment = 0
    /\ shaderLayout = <<>>
    /\ hostLayout = <<>>
    /\ uboSizes = <<>>
    /\ uboStorage = 0
    /\ uboMapped = <<>>
    /\ uboBound = <<>>

UboAt(name) ==
    /\ uboPc >= 1
    /\ uboPc <= Len(UboScript(prog))
    /\ UboScript(prog)[uboPc] = name

UboStep ==
    /\ uboPc' = uboPc + 1
    /\ UNCHANGED mainVars
    /\ UNCHANGED <<alignArgs, aligned>>
    /\ UNCHANGED camVars
    /\ UNCHANGED extraVars

\* linkProgram: the implementation lays out the uniform blocks. A std140
\* block has the offsets std140 gives; without a layout qualifier the block
\* is "shared" and its offsets are the implementation's choice
LinkBlocks ==
    /\ UboAt("link")
    /\ \E rules \in {"std140", "padded"} :
          shaderLayout' =
             [b \in BlockNames(prog) |->
                LET blk == BlockNamed(prog, b)
                    l == Layout(IF blk.std140 THEN "std140" ELSE rules,
                                blk.members)
                IN  [std140 |-> blk.std140, offsets |-> l.offsets,
                     strides |-> l.strides]]
    /\ UboStep
    /\ UNCHANGED <<uboAlignment, hostLayout, uboSizes, uboStorage, uboMapped,
                   uboBound>>

\* struct UData / UBOCameraT / ... : the C++ compiler lays out the structs
DeclareStructs ==
    /\ UboAt("structs")
    /\ hostLayout' =
          [b \in BlockNames(prog) |-> Layout("host", HostMembers(prog, b))]
    /\ UboStep
    /\ UNCHANGED <<uboAlignment, shaderLayout, uboSizes, uboStorage,
                   uboMapped, uboBound>>

\* glGetIntegerv(GL_UNIFORM_BUFFER_OFFSET_ALIGNMENT, &uboAlignment)
QueryAlignment ==
    /\ UboAt("queryAlignment")
    /\ uboAlignment' \in 1..MaxAlignment
    /\ UboStep
    /\ UNCHANGED <<shaderLayout, hostLayout, uboSizes, uboStorage, uboMapped,
                   uboBound>>

\* auto alignedSizeofX = gfx::util::alignUp(sizeof(X), uboAlignment)
AlignedSizes ==
    /\ UboAt("sizes")
    /\ uboSizes' =
          [b \in BlockNames(prog) |-> alignUp(hostLayout[b].size, uboAlignment)]
    /\ UboStep
    /\ UNCHANGED <<uboAlignment, shaderLayout, hostLayout, uboStorage,
                   uboMapped, uboBound>>

\* totalSizeofUBO (tutorials 17 and 19: sizeof(UData))
TotalSizeofUBO(p) ==
    CASE p \in {"t17", "t19"} -> hostLayout["Data"].size
      [] p = "t18" -> uboSizes["CameraData"] + uboSizes["SunData"]
      [] p = "t20" ->
            uboSizes["CameraData"] + uboSizes["DirectionalLight"]
                + uboSizes["Material"] + uboSizes["PointLights"]
      [] OTHER ->
            uboSizes["CameraData"] + uboSizes["DirectionalLight"]
                + uboSizes["Material"] + uboSizes["PointLights"]
                + uboSizes["SpotLights"]

\* glNamedBufferStorage(ubo, totalSizeofUBO, ...)
BufferStorage ==
    /\ UboAt("storage")
    /\ uboStorage' = TotalSizeofUBO(prog)
    /\ UboStep
    /\ UNCHANGED <<uboAlignment, shaderLayout, hostLayout, uboSizes,
                   uboMapped, uboBound>>

\* a main that took the pointers in the order of the sum totalSizeofUBO
MappedOffsetsSunFirst(p) ==
    [b \in BlockNames(p) |->
        CASE b \in {"CameraData", "Data"} -> 0
          [] b \in {"SunData", "DirectionalLight"} -> uboSizes["CameraData"]
          [] b = "Material" ->
                uboSizes["CameraData"] + uboSizes["DirectionalLight"]
          [] b = "PointLights" ->
                uboSizes["CameraData"] + uboSizes["DirectionalLight"]
                    + uboSizes["Material"]
          [] OTHER ->
                uboSizes["CameraData"] + uboSizes["DirectionalLight"]
                    + uboSizes["Material"] + uboSizes["PointLights"]]

\* the offsets added to the base pointer: pBase + ...
MappedOffsets(p) ==
    CASE p \in {"t17", "t19"} -> [Data |-> 0]
      [] p = "t18" -> [CameraData |-> 0, SunData |-> uboSizes["CameraData"]]
      [] p = "t20" ->
            [CameraData |-> 0,
             Material |-> uboSizes["CameraData"],
             DirectionalLight |->
                uboSizes["CameraData"] + uboSizes["Material"],
             PointLights |->
                uboSizes["CameraData"] + uboSizes["Material"]
                    + uboSizes["DirectionalLight"]]
      [] OTHER ->
            LET alignedOffsetofUBOCamera == 0
                alignedOffsetofUBOMaterial ==
                    alignedOffsetofUBOCamera + uboSizes["CameraData"]
                alignedOffsetofUBOSun ==
                    alignedOffsetofUBOMaterial + uboSizes["Material"]
                alignedOffsetofUBOPointLights ==
                    alignedOffsetofUBOSun + uboSizes["DirectionalLight"]
                alignedOffsetofUBOSpotLights ==
                    alignedOffsetofUBOPointLights + uboSizes["PointLights"]
            IN  [CameraData |-> alignedOffsetofUBOCamera,
                 Material |-> alignedOffsetofUBOMaterial,
                 DirectionalLight |-> alignedOffsetofUBOSun,
                 PointLights |-> alignedOffsetofUBOPointLights,
                 SpotLights |-> alignedOffsetofUBOSpotLights]

\* glMapNamedBufferRange(ubo, 0, totalSizeofUBO, ...) and the pointers
\* into the mapping
MapBuffer ==
    /\ UboAt("map")
    /\ uboMapped' = [length |-> TotalSizeofUBO(prog), at |-> MappedOffsets(prog)]
    /\ UboStep
    /\ UNCHANGED <<uboAlignment, shaderLayout, hostLayout, uboSizes,
                   uboStorage, uboBound>>

\* the glBindBufferRange calls of the loop, by binding point (index 1 is
\* binding 0); tutorials 17 and 19 bind the whole buffer with
\* glBindBufferBase
BoundRanges(p) ==
    CASE p \in {"t17", "t19"} -> <<[offset |-> 0, size |-> uboStorage]>>
      [] p = "t18" ->
            <<[offset |-> 0, size |-> uboSizes["CameraData"]],
              [offset |-> uboSizes["CameraData"],
               size |-> uboSizes["SunData"]]>>
      [] p = "t20" ->
            <<[offset |-> 0, size |-> uboSizes["CameraData"]],
              [offset |-> uboSizes["CameraData"],
               size |-> uboSizes["Material"]],
              [offset |-> uboSizes["CameraData"] + uboSizes["Material"],
               size |-> uboSizes["DirectionalLight"]],
              [offset |-> uboSizes["CameraData"] + uboSizes["Material"]
                             + uboSizes["DirectionalLight"],
               size |-> uboSizes["PointLights"]]>>
      [] OTHER ->
            <<[offset |-> uboMapped.at["CameraData"],
               size |-> uboSizes["CameraData"]],
              [offset |-> uboMapped.at["Material"],
               size |-> uboSizes["Material"]],
              [offset |-> uboMapped.at["DirectionalLight"],
               size |-> uboSizes["DirectionalLight"]],
              [offset |-> uboMapped.at["PointLights"],
               size |-> uboSizes["PointLights"]],
              [offset |-> uboMapped.at["SpotLights"],
               size |-> uboSizes["SpotLights"]]>>

BindRanges ==
    /\ UboAt("bind")
    /\ uboBound' = BoundRanges(prog)
    /\ UboStep
    /\ UNCHANGED <<uboAlignment, shaderLayout, hostLayout, uboSizes,
                   uboStorage, uboMapped>>

NextUbo ==
    \/ LinkBlocks
    \/ DeclareStructs
    \/ QueryAlignment
    \/ AlignedSizes
    \/ BufferStorage
    \/ MapBuffer
    \/ BindRanges

SpecUbo == InitUbo /\ [][NextUbo]_vars

\* the set-up of the buffer of a multi-block tutorial is complete
UboDone ==
    /\ prog \in {"t18", "t20", "t21"}
    /\ uboPc = Len(UboScript(prog)) + 1

\* C3: in tutorials 18, 20 and 21, for every alignment the driver reports,
\* each block's offset is a multiple of the alignment, the ranges follow one
\* another in binding order without overlapping, each range is at least as
\* large as the struct written into it, the pointer into the mapping and the
\* range bound for a block start at the same offset, and the last range ends
\* at totalSizeofUBO, the size allocated and mapped.
C3_BlocksAlignedAndDisjoint ==
    UboDone =>
        LET blocks == ShaderBlocks(prog)
            n == Len(blocks)
            R(i) == uboBound[blocks[i].binding + 1]
        IN  /\ Len(uboBound) = n
            /\ \A i \in 1..n :
                  /\ R(i).offset % uboAlignment = 0
                  /\ R(i).size >= hostLayout[blocks[i].name].size
                  /\ uboMapped.at[blocks[i].name] = R(i).offset
            /\ \A i \in 1..n, j \in 1..n :
                  i < j => uboBound[i].offset + uboBound[i].size
                              <= uboBound[j].offset
            /\ uboBound[n].offset + uboBound[n].size = uboStorage
            /\ uboMapped.length = uboStorage

\* tutorial 21 with an alignment of 256: 216, 8 and 40 bytes take 256 each,
\* the 512 bytes of the point lights 512, the 640 of the spot lights 768
C3_Witness ==
    /\ prog = "t21"
    /\ UboDone
    /\ uboAlignment = 256
    /\ uboBound[5] = [offset |-> 1280, size |-> 768]
    /\ uboStorage = 2048

\* the shaders are linked and the structs declared
LayoutsKnown == uboPc >= 3

\* C5: every block the host fills through a struct is declared std140 in
\* the shader, and the struct's members are at the offsets std140 assigns,
\* the light arrays with strides of 64 (PointLightT) and 80 (SpotLightT)
\* bytes for 8 elements each.
C5_StructsMatchStd140Blocks ==
    LayoutsKnown =>
        \A b \in BlockNames(prog) :
            LET blk == BlockNamed(prog, b)
                std == Layout("std140", blk.members)
            IN  /\ shaderLayout[b].std140
                /\ Len(HostMembers(prog, b)) = Len(blk.members)
                /\ hostLayout[b].offsets = std.offsets
                /\ hostLayout[b].offsets = shaderLayout[b].offsets
                /\ hostLayout[b].strides = std.strides
                /\ b = "PointLights" =>
                      /\ hostLayout[b].strides = <<64>>
                      /\ HostMembers(prog, b)[1].n = 8
                      /\ blk.members[1].n = 8
                /\ b = "SpotLights" =>
                      /\ hostLayout[b].strides = <<80>>
                      /\ HostMembers(prog, b)[1].n = 8
                      /\ blk.members[1].n = 8

\* the same, leaving out the layout qualifier: the offsets agree
C5_OffsetsAgree ==
    LayoutsKnown =>
        \A b \in BlockNames(prog) :
            LET blk == BlockNamed(prog, b)
                std == Layout("std140", blk.members)
            IN  /\ hostLayout[b].offsets = std.offsets
                /\ hostLayout[b].strides = std.strides

(* ---------------------------------------------------------------------- *)
(* Properties of a main (specification Spec)                             *)
(* ---------------------------------------------------------------------- *)

\* C1: when glfwInit, window creation, glewInit, a shader compile or the
\* program link fails, the std::runtime_error thrown at that step ends the
\* process: the steps executed are exactly those before the failing one, no
\* render-loop iteration has run, and nothing more can run (no later step,
\* no retry).
C1_FailureAborts ==
    thrown # "none" =>
        /\ phase = "terminated"
        /\ log = SubSeq(SetupScript(prog), 1, ip - 1)
        /\ thrown \in {"compile", "link"} \/ SetupScript(prog)[ip] = thrown
        /\ frame = 0
        /\ frameLog = <<>>
        /\ ~ENABLED Next

\* a link failure in tutorial 19, after the two shaders compiled
C1_Witness ==
    /\ prog = "t19"
    /\ thrown = "link"
    /\ Len(log) = 9

\* C2 as stated: on every shader-compile, link or window-creation failure
\* something was printed before the error was thrown.
C2_PrintBeforeThrow ==
    thrown \in {"compile", "link", "glfwCreateWindow"} => printed # <<>>

\* C2 as amended: a failed window creation (or glfwInit) is reported by GLFW
\* through errorCallback, which prints before main throws; for a failed
\* compile or link the mains print nothing themselves: the GL info log
\* travels in the message of the thrown error, and the only output there
\* can be is what the driver sends to debugCallback where it is installed.
C2_DiagnosticBeforeOrInThrow ==
    /\ thrown \in {"glfwInit", "glfwCreateWindow"} =>
            /\ printed = <<"errorCallback">>
            /\ "infoLog" \notin Range(what)
    /\ thrown \in {"compile", "link"} =>
            /\ "infoLog" \in Range(what)
            /\ Range(printed) \subseteq {"debugCallback"}
            /\ ~debugEnabled => printed = <<>>

\* a compile failure in tutorial 4, which installs no debug callback, and
\* nothing was printed
C2_Witness ==
    /\ prog = "t04"
    /\ thrown = "compile"
    /\ printed = <<>>
    /\ "infoLog" \in Range(what)


\* the positions of a sequence that hold one of the names
Positions(seq, names) == {i \in 1..Len(seq) : seq[i] \in names}

\* an iteration of the render loop has just completed (frameLog holds it)
IterationDone == phase = "loop" /\ ip = 0 /\ frame > 0

UpdateSteps == {"writeUbo", "setUniforms"}

\* C6 as stated: in every main, each iteration updates the frame's uniform
\* data, then issues exactly one draw call, then swaps, then polls.
C6_UpdateThenOneDraw ==
    IterationDone =>
        LET upd == Positions(frameLog, UpdateSteps)
            drw == Positions(frameLog, {"draw"})
            swp == Positions(frameLog, {"glfwSwapBuffers"})
            pol == Positions(frameLog, {"glfwPollEvents"})
        IN  /\ upd # {}
            /\ Cardinality(drw) = 1
            /\ \A u \in upd, d \in drw : u < d
            /\ \A d \in drw, w \in swp, q \in pol : d < w /\ w < q

\* C6 as amended: every main swaps and then polls once per iteration;
\* every main but tutorial01 issues exactly one draw call before the swap
\* (tutorial01 issues none); the mains with uniforms (tutorial07, part_002,
\* tutorials 16 to 21) set the frame's uniform data before that draw call,
\* and the others (Hello Dot, Hello Triangle, tutorial04) set none.
C6_OneDrawAfterUpdates ==
    IterationDone =>
        LET upd == Positions(frameLog, UpdateSteps)
            drw == Positions(frameLog, {"draw"})
            swp == Positions(frameLog, {"glfwSwapBuffers"})
            pol == Positions(frameLog, {"glfwPollEvents"})
        IN  /\ Cardinality(drw) = IF prog = "t01" THEN 0 ELSE 1
            /\ (upd # {}) = (prog \in {"t07", "t08", "t16", "t17", "t18",
                                       "t19", "t20", "t21"})
            /\ (prog \in {"t17", "t18", "t19", "t20", "t21"})
                  = ("writeUbo" \in Range(frameLog))
            /\ \A u \in upd, d \in drw : u < d
            /\ Cardinality(swp) = 1
            /\ Cardinality(pol) = 1
            /\ \A d \in drw, w \in swp, q \in pol : d < w /\ w < q

\* tutorial 19 has completed its second iteration, with a draw call in it
C6_Witness ==
    /\ prog = "t19"
    /\ IterationDone
    /\ frame = 2
    /\ "draw" \in Range(frameLog)

RenderSteps ==
    {"writeUbo", "glClear", "setUniforms", "draw", "glfwSwapBuffers"}

\* the step that hands the frame's values to the shaders has been executed
\* in this iteration
Uploaded ==
    /\ phase = "loop"
    /\ ip >= 1
    /\ (IF UsesUbo(prog) THEN "writeUbo" ELSE "setUniforms") \in Range(frameLog)

\* C7: key callbacks run only inside glfwPollEvents: no step taken while
\* main is at a statement from the frame's uniform writes to glfwSwapBuffers
\* changes the camera (flags, position) or userData.ambientIntensity, which
\* are there as the previous iteration's poll and camera update left them,
\* and those are the values uploaded for the frame.
C7_FrameUsesPreviousState ==
    /\ [](phase = "loop" /\ ip >= 1 /\ LoopScript(prog)[ip] \in RenderSteps
            => camera = snapshot.camera /\ ambientIntensity = snapshot.ambient)
    /\ [](Uploaded /\ UsesGlUniform(prog)
            => ubo.eye = snapshot.camera.pos /\ ubo.ambient = snapshot.ambient)
    /\ [][phase = "loop" /\ ip >= 1 /\ LoopScript(prog)[ip] \in RenderSteps
            => camera' = camera /\ ambientIntensity' = ambientIntensity]_vars

\* tutorial 19 has uploaded, in its second iteration, the eye position and
\* the ambient intensity that the keys of the first iteration's poll and
\* its camera update produced
C7_Witness ==
    /\ prog = "t19"
    /\ Uploaded
    /\ frame = 1
    /\ ubo.eye # <<0, 0, 0>>
    /\ ubo.eye = snapshot.camera.pos
    /\ LoopScript(prog)[ip] = "glfwSwapBuffers"

\* C8: the writes through the mapped pointer for a frame never happen while
\* a draw call of an earlier frame, which reads the same range, is still
\* pending on the GPU.
C8_NoWriteWhileGpuReads == ~overlap

\* C9 as stated: every program has read exactly the one file
\* "data/test.png", once, when its render loop starts, and never any other.
C9_OneTextureEveryProgram ==
    /\ Range(filesRead) \subseteq {"data/test.png"}
    /\ Len(filesRead) <= 1
    /\ phase \in {"loop", "teardown", "done"} => filesRead = <<"data/test.png">>

\* C9 as amended: tutorials 16 to 21 read exactly one file, "data/test.png",
\* exactly once, as the last step of setup (so before the first render-loop
\* iteration); the other programs read no file at all.
C9_OneTextureWhereTextured ==
    /\ Range(filesRead) \subseteq {"data/test.png"}
    /\ Len(filesRead) <= 1
    /\ prog \in {"t16", "t17", "t18", "t19", "t20", "t21"} =>
          /\ phase \in {"loop", "teardown", "done"} =>
                filesRead = <<"data/test.png">>
          /\ phase = "setup" => filesRead = <<>>
    /\ prog \in {"t01", "dot", "tri", "t04", "t07", "t08"} => filesRead = <<>>

\* tutorial 16 has read the file and is rendering
C9_Witness ==
    /\ prog = "t16"
    /\ filesRead = <<"data/test.png">>
    /\ frame = 1

GlfwPrerequisites(p) ==
    <<"glfwInit", "glfwCreateWindow", "glfwMakeContextCurrent">>
        \o (IF UsesGlew(p) THEN <<"glewInit">> ELSE <<>>)

\* the setup and teardown steps that issue OpenGL calls
GlSteps ==
    {"enableDebug", "loadVertexShader", "loadFragmentShader", "linkProgram",
     "createVbo", "createIbo", "createUbo", "createVao", "glState",
     "loadTexture", "releaseTexture", "deleteVao", "deleteVbo", "deleteIbo",
     "deleteUbo", "deleteProgram"}

TeardownRank(step) ==
    CASE step = "releaseTexture" -> 1
      [] step \in {"deleteVao", "deleteVbo", "deleteIbo", "deleteUbo",
                   "deleteProgram"} -> 2
      [] step = "glfwDestroyWindow" -> 3
      [] step = "glfwTerminate" -> 4
      [] step = "return" -> 5
      [] OTHER -> 0

TornDown == {i \in 1..Len(log) : TeardownRank(log[i]) > 0}

\* C11: teardown starts only after glfwWindowShouldClose has returned true
\* (the flag is set and nothing was thrown); its statements run at most once
\* each and in the order texture release, GL object deletions,
\* glfwDestroyWindow, glfwTerminate, return, so that no GL call follows
\* glfwDestroyWindow; a main that is done has run all of them and ended with
\* return 0.
C11_TeardownOrdered ==
    /\ (TornDown # {} \/ phase \in {"teardown", "done"}) =>
            (shouldClose /\ thrown = "none")
    /\ \A i, j \in TornDown :
          i < j => /\ log[i] # log[j]
                   /\ TeardownRank(log[i]) <= TeardownRank(log[j])
    /\ phase = "done" =>
          /\ {"glfwDestroyWindow", "glfwTerminate", "return"} \subseteq Range(log)
          /\ ("texture" \in created) => ("releaseTexture" \in Range(log))
          /\ log[Len(log)] = "return"
          /\ window = "destroyed"

C11_Witness ==
    /\ prog = "t19"
    /\ phase = "done"
    /\ deleted = <<"texture", "vao", "vbo", "ibo", "ubo", "program">>

\* C12: once glfwDestroyWindow has been called on the way out, every GL
\* object created during setup has been deleted exactly once.
C12_AllCreatedDeletedOnce ==
    window = "destroyed" =>
        \A o \in created : Cardinality(Positions(deleted, {o})) = 1

(* ---------------------------------------------------------------------- *)
(* A main that keeps running (SpecLive)                                    *)
(* ---------------------------------------------------------------------- *)

\* a statement of main completes: the steps that move main's position
MainStep == Next /\ (<<phase, ip>>' # <<phase, ip>>)

\* main is a sequential program that is never suspended for good, and the
\* GPU finishes what was queued for it
SpecLive == Init /\ [][Next]_vars /\ WF_vars(MainStep) /\ WF_vars(GpuComplete)

\* a key event with key ESCAPE reached a key callback that handles it
EscapeDelivered == HasUserData(prog) /\ delivered.escape

\* C13: in tutorials 17 to 21, once an ESCAPE key event was delivered the
\* should-close flag is set; the flag is never cleared; the next condition
\* check of the loop leaves the loop; and main goes on to finish teardown and
\* return 0.
C13_EscapeEndsProgram ==
    /\ [](EscapeDelivered => shouldClose)
    /\ [][shouldClose => shouldClose']_vars
    /\ [][(/\ EscapeDelivered
           /\ phase = "loop"
           /\ ip = 0
           /\ <<phase, ip>>' # <<phase, ip>>) => phase' = "teardown"]_vars
    /\ (EscapeDelivered ~> (phase = "done" /\ log[Len(log)] = "return"))

C13_Witness ==
    /\ prog = "t17"
    /\ EscapeDelivered
    /\ phase = "done"
    /\ frame = 1

(* ---------------------------------------------------------------------- *)
(* gfx::Camera on its own (SpecCamera, SpecMoves)                          *)
(* ---------------------------------------------------------------------- *)

\* positions are kept in tenths of a unit (the mains call update(0.1F)), so
\* a unit vector such as _target is PosScale tenths long
PosScale == 10

\* the step sizes tried, in tenths: update(0.1F) and update(0.2F)
StepSizes == {StepSize, 2 * StepSize}

\* the camera is followed while every component of _pos is within MaxPos
\* tenths of 0
MaxPos == 2

InBox(v) ==
    IF v = NaNVec THEN TRUE
    ELSE \A i \in 1..3 : v[i] >= -MaxPos /\ v[i] <= MaxPos

Arrows == {"UP", "DOWN", "LEFT", "RIGHT"}

\* the keys onKeyboard is called with: the four it has a case for, and one
\* that falls to its default case
CamKeys == Arrows \cup {"ESCAPE"}

\* the pressed flag that belongs to an arrow key
Flag(c, key) ==
    CASE key = "UP" -> c.upPressed
      [] key = "DOWN" -> c.downPressed
      [] key = "LEFT" -> c.leftPressed
      [] key = "RIGHT" -> c.rightPressed

PressedKeys(c) == {k \in Arrows : Flag(c, k)}

\* the one arrow key whose flag is set, if it is the only one
Only(c) ==
    IF Cardinality(PressedKeys(c)) = 1
    THEN CHOOSE k \in PressedKeys(c) : TRUE
    ELSE "other"

Dot(a, b) == a[1] * b[1] + a[2] * b[2] + a[3] * b[3]

\* glm::lookAt(_pos, _target, _up) looks from the eye _pos towards the
\* center _target: along center - eye
ViewDirection(c) == Add(Scale(c.target, PosScale), Scale(c.pos, -1))

\* a camera as one of its two constructors leaves it; everything else idle
InitCamera ==
    /\ prog = "t19"
    /\ InitMain
    /\ alignArgs = <<0, 1>>
    /\ aligned = <<>>
    /\ uboPc = 0
    /\ uboAlignment = 0
    /\ shaderLayout = <<>>
    /\ hostLayout = <<>>
    /\ uboSizes = <<>>
    /\ uboStorage = 0
    /\ uboMapped = <<>>
    /\ uboBound = <<>>
    /\ gfxCamera \in {CameraInit}
                     \cup {CameraOf(a[1], a[2], a[3]) : a \in CtorArgs}
    /\ camCall = NoCall
    /\ moves = <<>>
    /\ ExtraAtRest

\* camera.onKeyboard(key, action)
CamOnKeyboard ==
    /\ \E key \in CamKeys, action \in Actions :
          /\ gfxCamera' = OnKeyboard(gfxCamera, key, action)
          /\ camCall' = [op |-> "onKeyboard", key |-> key, action |-> action,
                         stepSize |-> 0]
    /\ UNCHANGED moves
    /\ UNCHANGED mainVars
    /\ UNCHANGED <<alignArgs, aligned>>
    /\ UNCHANGED uboVars
    /\ UNCHANGED extraVars

\* camera.update(stepSize)
CamUpdate ==
    /\ \E s \in StepSizes :
          /\ InBox(Update(gfxCamera, s).pos)
          /\ gfxCamera' = Update(gfxCamera, s)
          /\ camCall' = [op |-> "update", key |-> "none", action |-> "none",
                         stepSize |-> s]
    /\ UNCHANGED moves
    /\ UNCHANGED mainVars
    /\ UNCHANGED <<alignArgs, aligned>>
    /\ UNCHANGED uboVars
    /\ UNCHANGED extraVars

NextCamera == CamOnKeyboard \/ CamUpdate

SpecCamera == InitCamera /\ [][NextCamera]_vars

\* the same calls, remembered as moves: camera.onKeyboard(key, action)
MoveOnKeyboard ==
    /\ \E key \in CamKeys, action \in Actions :
          gfxCamera' = OnKeyboard(gfxCamera, key, action)
    /\ UNCHANGED <<camCall, moves>>
    /\ UNCHANGED mainVars
    /\ UNCHANGED <<alignArgs, aligned>>
    /\ UNCHANGED uboVars
    /\ UNCHANGED extraVars

\* camera.update(stepSize)
MoveUpdate ==
    /\ \E s \in StepSizes :
          LET after == Update(gfxCamera, s)
              move == [only |-> Only(gfxCamera), stepSize |-> s,
                       from |-> gfxCamera.pos, to |-> after.pos]
          IN  /\ InBox(after.pos)
              /\ gfxCamera' = after
              /\ moves' = IF Len(moves) < 2 THEN Append(moves, move)
                          ELSE <<moves[2], move>>
    /\ UNCHANGED camCall
    /\ UNCHANGED mainVars
    /\ UNCHANGED <<alignArgs, aligned>>
    /\ UNCHANGED uboVars
    /\ UNCHANGED extraVars

NextMoves == MoveOnKeyboard \/ MoveUpdate

SpecMoves == InitCamera /\ [][NextMoves]_vars

(* ---------------------------------------------------------------------- *)
(* Properties of gfx::Camera                                               *)
(* ---------------------------------------------------------------------- *)

\* the step the priority order LEFT, RIGHT, UP, DOWN picks
PriorityStep(c, stepSize) ==
    IF c.leftPressed
    THEN Scale(Normalize(Cross(c.target, c.up)), stepSize)
    ELSE IF c.rightPressed
    THEN Scale(Normalize(Cross(c.up, c.target)), stepSize)
    ELSE IF c.upPressed THEN Scale(c.target, stepSize)
    ELSE IF c.downPressed THEN Scale(c.target, -stepSize)
    ELSE <<0, 0, 0>>

\* C14: update(stepSize) adds to _pos exactly one step, picked by priority:
\* LEFT's lateral step, else RIGHT's, else UP's forward step, else DOWN's
\* backward step, else nothing; a lateral step replaces a forward or backward
\* one, and with no flag set _pos stays as it is.
C14_UpdateStepsByPriority ==
    [][camCall'.op = "update" =>
          /\ gfxCamera'.pos =
                Add(gfxCamera.pos, PriorityStep(gfxCamera, camCall'.stepSize))
          /\ (PressedKeys(gfxCamera) = {}) => (gfxCamera'.pos = gfxCamera.pos)]_vars

\* an update of the default camera with LEFT and UP both pressed
C14_Witness ==
    /\ camCall = [op |-> "update", key |-> "none", action |-> "none",
                  stepSize |-> 2]
    /\ PressedKeys(gfxCamera) = {"LEFT", "UP"}
    /\ gfxCamera.target = <<0, 0, -1>>
    /\ gfxCamera.up = <<0, 1, 0>>
    /\ gfxCamera.pos = <<2, 0, 0>>

\* C15: after onKeyboard(key, action) with an arrow key, that key's flag is
\* true exactly when action is GLFW_PRESS; a camera just constructed has no
\* flag set.
C15_FlagIffPress ==
    /\ (camCall.op = "onKeyboard" /\ camCall.key \in Arrows) =>
            (Flag(gfxCamera, camCall.key) <=> (camCall.action = GLFW_PRESS))
    /\ (camCall.op = "construct") => (PressedKeys(gfxCamera) = {})

\* a REPEAT for LEFT arrived while UP was pressed
C15_Witness ==
    /\ camCall.op = "onKeyboard"
    /\ camCall.key = "LEFT"
    /\ camCall.action = GLFW_REPEAT
    /\ PressedKeys(gfxCamera) = {"UP"}

\* C16: a pressed flag, once set by the PRESS of its key, stays set until a
\* RELEASE of that same key: no other call (a REPEAT of the key, an event of
\* another key, an update) clears it.
C16_HeldKeyStaysPressed ==
    [][\A k \in Arrows :
          (Flag(gfxCamera, k) /\ ~Flag(gfxCamera', k)) =>
              /\ camCall'.op = "onKeyboard"
              /\ camCall'.key = k
              /\ camCall'.action = GLFW_RELEASE]_vars

\* C17: the direction getViewMatrix looks along, center - eye, is a positive
\* multiple of _target, whatever position the camera has reached.
C17_LooksAlongTarget ==
    LET d == ViewDirection(gfxCamera)
    IN  /\ d # NaNVec
        /\ Cross(d, gfxCamera.target) = <<0, 0, 0>>
        /\ Dot(d, gfxCamera.target) > 0

DefaultOrientation(c) == c.target = <<0, 0, -1>> /\ c.up = <<0, 1, 0>>

\* C18: with target (0,0,-1) and up (0,1,0), an update with only LEFT
\* pressed lowers x and an update with only RIGHT pressed raises x.
C18_LeftIsNegativeX ==
    [][(camCall'.op = "update" /\ DefaultOrientation(gfxCamera)) =>
          /\ (Only(gfxCamera) = "LEFT") => (gfxCamera'.pos[1] < gfxCamera.pos[1])
          /\ (Only(gfxCamera) = "RIGHT") => (gfxCamera'.pos[1] > gfxCamera.pos[1])]_vars

\* C19: onKeyboard leaves _pos, _target and _up alone and changes no flag
\* but the one of its key (none for a key that is not an arrow); update
\* leaves _target, _up and the four flags alone. So _target and _up never
\* change.
C19_FrameConditions ==
    [][/\ (camCall'.op = "onKeyboard") =>
              /\ gfxCamera'.pos = gfxCamera.pos
              /\ \A k \in Arrows :
                    (k # camCall'.key) => (Flag(gfxCamera', k) = Flag(gfxCamera, k))
       /\ (camCall'.op = "update") =>
              (PressedKeys(gfxCamera') = PressedKeys(gfxCamera))
       /\ gfxCamera'.target = gfxCamera.target
       /\ gfxCamera'.up = gfxCamera.up]_vars

\* a key that is not an arrow arrived at a camera that has moved and has a
\* flag set
C19_Witness ==
    /\ camCall.op = "onKeyboard"
    /\ camCall.key = "ESCAPE"
    /\ PressedKeys(gfxCamera) = {"DOWN", "RIGHT"}
    /\ gfxCamera.target = <<1, 0, 0>>
    /\ gfxCamera.pos = <<0, 1, 2>>

\* the last two updates were made with only a pressed, then only b pressed,
\* and the same step size
InversePair(a, b) ==
    /\ Len(moves) = 2
    /\ moves[1].only = a
    /\ moves[2].only = b
    /\ moves[1].stepSize = moves[2].stepSize

\* the second of them put _pos back where the first found it
Restored == moves[2].to # NaNVec /\ moves[2].to = moves[1].from

C21_OneUpdatePerIteration ==
    /\ [](HasKeyCallback(prog) => t = frame)
    /\ [](( /\ HasKeyCallback(prog)
            /\ phase = "loop"
            /\ ip >= 1
            /\ "draw" \in Range(frameLog)) => ubo.eye = snapshot.camera.pos)
    /\ [][HasKeyCallback(prog) =>
            IF frame' = frame + 1
            THEN /\ frameLog[Len(frameLog)] = "glfwPollEvents"
                 /\ camera'.pos = Add(camera.pos, PriorityStep(camera, 1))
                 /\ snapshot'.camera.pos = camera'.pos
            ELSE camera'.pos = camera.pos]_vars

\* tutorial 16 after two iterations, LEFT having been pressed during the
\* first one's poll
C21_Witness ==
    /\ prog = "t16"
    /\ phase = "loop"
    /\ ip = 0
    /\ frame = 2
    /\ t = 2
    /\ camera.leftPressed
    /\ camera.pos = <<2, 0, 0>>

(* ---------------------------------------------------------------------- *)
(* The key callback and the frame upload on their own (SpecKeys)           *)
(* ---------------------------------------------------------------------- *)

\* key events delivered to one run
MaxKeyLog == 2

\* the keys delivered: the two the callback has an ambient case for, the one
\* that closes the window, one the camera handles and one nobody handles
AmbientKeys == {"A", "S", "ESCAPE", "UP", "SPACE"}

\* a main with userData, its window open and its callback installed
InitKeys ==
    /\ prog \in {p \in Programs : HasUserData(p)}
    /\ InitMain
    /\ InitCalc

\* GLFW calls the key callback with (key, action)
KeyDelivered ==
    /\ Len(keyLog) < MaxKeyLog
    /\ \E key \in AmbientKeys, action \in Actions :
          LET s0 == [camera |-> camera, ambient |-> ambientIntensity,
                     shouldClose |-> shouldClose]
              s1 == KeyCallback(prog, s0, key, action)
          IN  /\ keyLog' = Append(keyLog, <<key, action>>)
              /\ camera' = s1.camera
              /\ ambientIntensity' = s1.ambient
              /\ shouldClose' = s1.shouldClose
    /\ UNCHANGED setupVars
    /\ UNCHANGED <<phase, ip, t, ubo, frameLog, frame, gpuPending, overlap,
                   snapshot, delivered>>
    /\ UNCHANGED <<alignArgs, aligned>>
    /\ UNCHANGED uboVars
    /\ UNCHANGED camVars
    /\ UNCHANGED <<geoVars, lightVars, texVars>>

\* the frame's writes: p...Data->ambientIntensity = userData.ambientIntensity
FrameUpload ==
    /\ ubo' = FrameData
    /\ UNCHANGED setupVars
    /\ UNCHANGED <<phase, ip, camera, ambientIntensity, shouldClose, t,
                   frameLog, frame, gpuPending, overlap, snapshot, delivered>>
    /\ UNCHANGED calcVars

NextKeys == KeyDelivered \/ FrameUpload

SpecKeys == InitKeys /\ [][NextKeys]_vars

\* how many of the events delivered so far had this key
EventsWith(key) == Cardinality({i \in 1..Len(keyLog) : keyLog[i][1] = key})

\* C22: in tutorials 17 to 21 every key event with key A adds 0.05 to
\* userData.ambientIntensity and every one with key S subtracts 0.05,
\* whatever its action, so a press and a release of A add 0.10; no other key
\* changes it; and what a frame uploads is userData.ambientIntensity as it is
\* at that moment.
C22_AmbientFollowsKeys ==
    /\ [](HasUserData(prog) =>
            ambientIntensity =
                AmbientInit(prog) + EventsWith("A") - EventsWith("S"))
    /\ [][keyLog' # keyLog =>
            LET key == keyLog'[Len(keyLog')][1]
            IN  ambientIntensity' - ambientIntensity =
                    IF key = "A" THEN 1 ELSE IF key = "S" THEN -1 ELSE 0]_vars
    /\ [][ubo' # ubo =>
            /\ ubo'.ambient = ambientIntensity
            /\ ambientIntensity' = ambientIntensity]_vars

\* tutorial 19 after a press and a release of A, the frame after them
\* uploaded
C22_Witness ==
    /\ prog = "t19"
    /\ keyLog = <<<<"A", GLFW_PRESS>>, <<"A", GLFW_RELEASE>>>>
    /\ ambientIntensity = AmbientInit(prog) + 2
    /\ ubo.ambient = ambientIntensity

(* ---------------------------------------------------------------------- *)
(* Geometry set-up and the draw call (SpecGeometry)                        *)
(* ---------------------------------------------------------------------- *)

\* the mains that bind their vertex buffer with glBindVertexBuffer
GeoPrograms == {"t07", "t08", "t16", "t17", "t18", "t19", "t20", "t21"}

\* the mains that draw with an index buffer
Indexed(p) == p \in GeoPrograms \ {"t07"}

\* the mains that compute per-vertex normals
HasNormals(p) == p \in {"t18", "t19", "t20", "t21"}

\* sizeof of the types a vertex is made of
SizeOfType(ty) ==
    CASE ty = "float" -> 4
      [] ty = "glm::u16" -> 2
      [] ty = "glm::vec2" -> 8
      [] ty = "glm::vec3" -> 12

\* a build in which glm's vector types are aligned for SIMD
AlignOfSimd(ty) ==
    CASE ty = "float" -> 4
      [] ty = "glm::u16" -> 2
      [] ty = "glm::vec2" -> 8
      [] ty = "glm::vec3" -> 16

\* alignof: glm's vectors are structs of floats
AlignOfType(ty) ==
    CASE ty = "float" -> 4
      [] ty = "glm::u16" -> 2
      [] ty = "glm::vec2" -> 4
      [] ty = "glm::vec3" -> 4

\* struct Vertex as declared (tutorials 07 and 08: the element type of
\* points, a glm::vec3)
VertexFields(p) ==
    CASE p \in {"t07", "t08"} -> <<[name |-> "position", type |-> "glm::vec3"]>>
      [] p = "t16" -> <<[name |-> "position", type |-> "glm::vec3"],
                        [name |-> "texcoord", type |-> "glm::vec2"]>>
      [] p = "t17" -> <<[name |-> "x", type |-> "float"],
                        [name |-> "y", type |-> "float"],
                        [name |-> "z", type |-> "float"],
                        [name |-> "u", type |-> "float"],
                        [name |-> "v", type |-> "float"]>>
      [] p = "t19" -> <<[name |-> "x", type |-> "float"],
                        [name |-> "y", type |-> "float"],
                        [name |-> "z", type |-> "float"],
                        [name |-> "u", type |-> "float"],
                        [name |-> "v", type |-> "float"],
                        [name |-> "nx", type |-> "float"],
                        [name |-> "ny", type |-> "float"],
                        [name |-> "nz", type |-> "float"]>>
      [] OTHER -> <<[name |-> "position", type |-> "glm::vec3"],
                    [name |-> "texcoord", type |-> "glm::vec2"],
                    [name |-> "normal", type |-> "glm::vec3"]>>

\* __attribute__ ((packed))
VertexPacked(p) == p \in {"t17", "t19"}

\* the alignment the compiler gives member k
VertexMemberAlign(p, k) ==
    IF VertexPacked(p) THEN 1 ELSE AlignOfType(VertexFields(p)[k].type)

\* offsetof(Vertex, member k)
RECURSIVE OffsetOfMember(_, _)
OffsetOfMember(p, k) ==
    IF k = 1 THEN 0
    ELSE PadTo(OffsetOfMember(p, k - 1)
                   + SizeOfType(VertexFields(p)[k - 1].type),
               VertexMemberAlign(p, k))

\* alignof(Vertex)
RECURSIVE VertexAlign(_, _)
VertexAlign(p, k) ==
    IF k = 0 THEN 1
    ELSE LET a == VertexMemberAlign(p, k)
             b == VertexAlign(p, k - 1)
         IN  IF a > b THEN a ELSE b

\* sizeof(Vertex)
SizeofVertex(p) ==
    LET n == Len(VertexFields(p))
    IN  PadTo(OffsetOfMember(p, n) + SizeOfType(VertexFields(p)[n].type),
              VertexAlign(p, n))

\* points.size()
NumPoints(p) == IF p = "t07" THEN 3 ELSE 4

\* an index array that counts the points from one
IndicesFromOne(p) == <<1, 4, 2, 2, 4, 3, 3, 4, 1, 1, 2, 3>>

\* std::array<glm::u16, 12> indices
Indices(p) == <<0, 3, 1, 1, 3, 2, 2, 3, 0, 0, 1, 2>>

\* glVertexArrayAttribFormat(vao, a, size, GL_FLOAT, GL_FALSE, relativeoffset)
AttribFormats(p) ==
    LET a0 == [size |-> 3, relativeoffset |-> 0]
        a1 == [size |-> 2, relativeoffset |-> 3 * SizeOfType("float")]
        a2 == [size |-> 3, relativeoffset |-> 5 * SizeOfType("float")]
    IN  CASE p \in {"t07", "t08"} -> <<a0>>
          [] p \in {"t16", "t17"} -> <<a0, a1>>
          [] OTHER -> <<a0, a1, a2>>

\* the count given to the draw call
DrawCount(p) == IF p = "t07" THEN 3 ELSE 12

\* the statements of a main that set up and draw its geometry
GeoScript(p) ==
    LET attribs == [a \in 1..Len(AttribFormats(p)) |-> "attrib"]
    IN  CASE p = "t07" -> <<"points", "vbo">> \o attribs \o <<"bind", "draw">>
          [] HasNormals(p) ->
                <<"points", "normals", "normalize", "vbo", "ibo">>
                    \o attribs \o <<"bind", "draw">>
          [] OTHER ->
                <<"points", "vbo", "ibo">> \o attribs \o <<"bind", "draw">>

InitGeometry ==
    /\ prog \in GeoPrograms
    /\ InitMain
    /\ CamAtRest
    /\ alignArgs = <<0, 1>>
    /\ aligned = <<>>
    /\ uboPc = 0
    /\ uboAlignment = 0
    /\ shaderLayout = <<>>
    /\ hostLayout = <<>>
    /\ uboSizes = <<>>
    /\ uboStorage = 0
    /\ uboMapped = <<>>
    /\ uboBound = <<>>
    /\ KeysAtRest
    /\ LightsAtRest
    /\ TexAtRest
    /\ geoPc = 1
    /\ loopI = 0
    /\ idx = <<>>
    /\ points = <<>>
    /\ outOfBounds = FALSE
    /\ vboBytes = 0
    /\ iboBytes = 0
    /\ vaoAttribs = <<>>
    /\ vertexStride = 0
    /\ drawCount = 0

GeoAt(name) ==
    /\ geoPc >= 1
    /\ geoPc <= Len(GeoScript(prog))
    /\ GeoScript(prog)[geoPc] = name

\* what no statement of the geometry set-up touches
GeoRest ==
    /\ UNCHANGED mainVars
    /\ UNCHANGED <<alignArgs, aligned>>
    /\ UNCHANGED uboVars
    /\ UNCHANGED camVars
    /\ UNCHANGED <<keyVars, lightVars, texVars>>

\* points.push_back(...), four times (tutorials 07, 08: the array literal);
\* a point's normal starts as zero: no face normal added
GeoPoints ==
    /\ GeoAt("points")
    /\ points' = [k \in 1..NumPoints(prog) |-> {}]
    /\ geoPc' = geoPc + 1
    /\ UNCHANGED <<loopI, idx, outOfBounds, vboBytes, iboBytes, vaoAttribs,
                   vertexStride, drawCount>>
    /\ GeoRest

\* for (...; i < indices.size(); ...): idx0 = indices[i]; idx1 =
\* indices[i + 1]; idx2 = indices[i + 2]
GeoReadIndices ==
    /\ GeoAt("normals")
    /\ idx = <<>>
    /\ loopI < Len(Indices(prog))
    /\ IF loopI + 2 < Len(Indices(prog))
       THEN /\ idx' = <<Indices(prog)[loopI + 1], Indices(prog)[loopI + 2],
                        Indices(prog)[loopI + 3]>>
            /\ UNCHANGED outOfBounds
       ELSE /\ idx' \in {<<0, 0, 0>>, <<NumPoints(prog), 0, 0>>}
            /\ outOfBounds' = TRUE
    /\ UNCHANGED <<geoPc, loopI, points, vboBytes, iboBytes, vaoAttribs,
                   vertexStride, drawCount>>
    /\ GeoRest

\* p0 = points[idx0]; p1 = points[idx1]; p2 = points[idx2]; the face normal
\* is added to the normal of each; i += 3
GeoAccumulate ==
    /\ GeoAt("normals")
    /\ idx # <<>>
    /\ LET named == {idx[k] : k \in 1..3}
       IN  /\ points' = [k \in 1..Len(points) |->
                            IF k - 1 \in named THEN points[k] \cup {loopI}
                            ELSE points[k]]
           /\ outOfBounds' =
                 (outOfBounds \/ \E v \in named : v >= Len(points))
    /\ idx' = <<>>
    /\ loopI' = loopI + 3
    /\ UNCHANGED <<geoPc, vboBytes, iboBytes, vaoAttribs, vertexStride,
                   drawCount>>
    /\ GeoRest

\* i < indices.size() is false: the loop is left
GeoLoopExit ==
    /\ GeoAt("normals")
    /\ idx = <<>>
    /\ loopI >= Len(Indices(prog))
    /\ geoPc' = geoPc + 1
    /\ UNCHANGED <<loopI, idx, points, outOfBounds, vboBytes, iboBytes,
                   vaoAttribs, vertexStride, drawCount>>
    /\ GeoRest

\* for (auto& p : points): the normal is normalized in place
GeoNormalize ==
    /\ GeoAt("normalize")
    /\ geoPc' = geoPc + 1
    /\ UNCHANGED <<loopI, idx, points, outOfBounds, vboBytes, iboBytes,
                   vaoAttribs, vertexStride, drawCount>>
    /\ GeoRest

\* glNamedBufferData(vbo, points.size() * sizeof(Vertex), ...)
GeoVbo ==
    /\ GeoAt("vbo")
    /\ vboBytes' = Len(points) * SizeofVertex(prog)
    /\ geoPc' = geoPc + 1
    /\ UNCHANGED <<loopI, idx, points, outOfBounds, iboBytes, vaoAttribs,
                   vertexStride, drawCount>>
    /\ GeoRest

\* glNamedBufferData(ibo, sizeof(indices), ...)
GeoIbo ==
    /\ GeoAt("ibo")
    /\ iboBytes' = Len(Indices(prog)) * SizeOfType("glm::u16")
    /\ geoPc' = geoPc + 1
    /\ UNCHANGED <<loopI, idx, points, outOfBounds, vboBytes, vaoAttribs,
                   vertexStride, drawCount>>
    /\ GeoRest

\* glEnableVertexArrayAttrib, glVertexArrayAttribFormat,
\* glVertexArrayAttribBinding(vao, a, 0) for the next attribute a
GeoAttrib ==
    /\ GeoAt("attrib")
    /\ vaoAttribs' =
          Append(vaoAttribs, AttribFormats(prog)[Len(vaoAttribs) + 1])
    /\ geoPc' = geoPc + 1
    /\ UNCHANGED <<loopI, idx, points, outOfBounds, vboBytes, iboBytes,
                   vertexStride, drawCount>>
    /\ GeoRest

\* glBindVertexBuffer(0, vbo, 0, sizeof(Vertex))
GeoBind ==
    /\ GeoAt("bind")
    /\ vertexStride' = SizeofVertex(prog)
    /\ geoPc' = geoPc + 1
    /\ UNCHANGED <<loopI, idx, points, outOfBounds, vboBytes, iboBytes,
                   vaoAttribs, drawCount>>
    /\ GeoRest

\* the vertices a draw call fetches: those its indices name (glDrawArrays:
\* the first count ones)
Fetched(p, count) ==
    IF Indexed(p)
    THEN {Indices(p)[k] : k \in 1..(IF count < Len(Indices(p)) THEN count
                                     ELSE Len(Indices(p)))}
    ELSE 0..(count - 1)

\* glDrawElements(GL_TRIANGLES, 12, GL_UNSIGNED_SHORT, 0), in tutorial 07
\* glDrawArrays(GL_TRIANGLES, 0, 3): GL reads count indices from the index
\* buffer and, for each, every attribute of that vertex from the vertex
\* buffer
GeoDraw ==
    /\ GeoAt("draw")
    /\ drawCount' = DrawCount(prog)
    /\ outOfBounds' =
          \/ outOfBounds
          \/ Indexed(prog) /\ DrawCount(prog) * SizeOfType("glm::u16") > iboBytes
          \/ \E v \in Fetched(prog, DrawCount(prog)),
                a \in 1..Len(vaoAttribs) :
                   v * vertexStride + vaoAttribs[a].relativeoffset
                       + vaoAttribs[a].size * SizeOfType("float") > vboBytes
    /\ geoPc' = geoPc + 1
    /\ UNCHANGED <<loopI, idx, points, vboBytes, iboBytes, vaoAttribs,
                   vertexStride>>
    /\ GeoRest

NextGeometry ==
    \/ GeoPoints
    \/ GeoReadIndices
    \/ GeoAccumulate
    \/ GeoLoopExit
    \/ GeoNormalize
    \/ GeoVbo
    \/ GeoIbo
    \/ GeoAttrib
    \/ GeoBind
    \/ GeoDraw

SpecGeometry == InitGeometry /\ [][NextGeometry]_vars

\* C23: in every indexed tutorial each of the 12 index entries is less than
\* the number of vertices uploaded (4), the count given to glDrawElements
\* (12) is the number of indices uploaded, and the normal-accumulation loop
\* (i = 0, 3, 6, 9) reads indices[i], indices[i + 1], indices[i + 2] and the
\* points they name only within bounds.
C23_IndicesInBounds ==
    /\ ~outOfBounds
    /\ (Indexed(prog) /\ vboBytes # 0) =>
          /\ vboBytes = 4 * SizeofVertex(prog)
          /\ Len(Indices(prog)) = 12
          /\ \A k \in 1..Len(Indices(prog)) :
                Indices(prog)[k] < vboBytes \div SizeofVertex(prog)
    /\ (Indexed(prog) /\ drawCount # 0) =>
          /\ drawCount = 12
          /\ drawCount = iboBytes \div SizeOfType("glm::u16")
    /\ idx # <<>> =>
          /\ loopI \in {0, 3, 6, 9}
          /\ \A k \in 1..3 : idx[k] < Len(points)

\* tutorial 19 after its draw call: every point's normal is the sum of the
\* normals of the three faces it belongs to
C23_Witness ==
    /\ prog = "t19"
    /\ drawCount = 12
    /\ loopI = 12
    /\ points = <<{0, 6, 9}, {0, 3, 9}, {3, 6, 9}, {0, 3, 6}>>
    /\ ~outOfBounds

\* the struct member an attribute reads from
AttribMember(p, a) ==
    LET names == IF VertexPacked(p) THEN <<"x", "u", "nx">>
                 ELSE <<"position", "texcoord", "normal">>
    IN  CHOOSE k \in 1..Len(VertexFields(p)) :
            VertexFields(p)[k].name = names[a]

\* the sizes of the members, added up
RECURSIVE SumOfSizes(_, _)
SumOfSizes(p, k) ==
    IF k = 0 THEN 0
    ELSE SumOfSizes(p, k - 1) + SizeOfType(VertexFields(p)[k].type)

\* C26: the vertex attribute set-up matches the Vertex struct in every
\* tutorial: attribute 0 (3 floats) at relative offset 0, attribute 1
\* (2 floats) at 12 and attribute 2 (3 floats) at 20 are at the byte offsets
\* of the struct members they read, and the stride given to
\* glBindVertexBuffer is sizeof(Vertex), which is the sum of the member
\* sizes (no padding).
C26_AttributesMatchVertex ==
    /\ \A a \in 1..Len(vaoAttribs) :
          /\ vaoAttribs[a].relativeoffset = <<0, 12, 20>>[a]
          /\ vaoAttribs[a].size = <<3, 2, 3>>[a]
          /\ vaoAttribs[a].relativeoffset
                = OffsetOfMember(prog, AttribMember(prog, a))
    /\ vertexStride # 0 =>
          /\ vertexStride = SizeofVertex(prog)
          /\ vertexStride = SumOfSizes(prog, Len(VertexFields(prog)))

\* tutorial 20, whose Vertex is not declared packed, with its three
\* attributes set up and its vertex buffer bound
C26_Witness ==
    /\ prog = "t20"
    /\ Len(vaoAttribs) = 3
    /\ vaoAttribs[3].relativeoffset = 20
    /\ vertexStride = 32

(* ---------------------------------------------------------------------- *)
(* The per-frame writes of the lighting tutorials (SpecLights)             *)
(* ---------------------------------------------------------------------- *)

LightPrograms == {"t20", "t21"}

\* the light arrays a main has: the block, the host struct of an element,
\* the member of the camera block that counts them, and the array's size
LightArrays(p) ==
    LET point == [block |-> "PointLights", ty |-> "PointLightT",
                  count |-> "numPointLights", max |-> MAX_POINT_LIGHTS,
                  shaderMax |-> ShaderMaxPointLights]
        spot == [block |-> "SpotLights", ty |-> "SpotLightT",
                 count |-> "numSpotLights", max |-> MAX_SPOT_LIGHTS,
                 shaderMax |-> ShaderMaxSpotLights]
    IN  IF p = "t21" THEN {point, spot} ELSE {point}

\* the members of PointLightT and SpotLightT, by name
LightMembers(ty) ==
    IF ty = "PointLightT"
    THEN {"color", "position", "ambientIntensity", "diffuseIntensity",
          "attenuationConstant", "attenuationLinear",
          "attenuationExponential"}
    ELSE {"color", "position", "direction", "ambientIntensity",
          "diffuseIntensity", "attenuationConstant", "attenuationLinear",
          "attenuationExponential", "cutoff"}

\* p<block>Data->member = ... and p<block>Data->lights[light].member = ...
W(block, light, member) ==
    [block |-> block, light |-> light, member |-> member, value |-> 0]

\* pCameraData->numPointLights = n
WCount(member, n) ==
    [block |-> "CameraData", light |-> 0, member |-> member, value |-> n]

\* the writes to pPointLightsData->lights[i], in the order of the source
PointLightWrites(i) ==
    <<W("PointLights", i, "ambientIntensity"),
      W("PointLights", i, "diffuseIntensity"),
      W("PointLights", i, "color"),
      W("PointLights", i, "position"),
      W("PointLights", i, "attenuationConstant"),
      W("PointLights", i, "attenuationLinear"),
      W("PointLights", i, "attenuationExponential")>>

\* the writes to pSpotLightsData->lights[i]
SpotLightWrites(i) ==
    <<W("SpotLights", i, "ambientIntensity"),
      W("SpotLights", i, "diffuseIntensity"),
      W("SpotLights", i, "color"),
      W("SpotLights", i, "position"),
      W("SpotLights", i, "direction"),
      W("SpotLights", i, "cutoff"),
      W("SpotLights", i, "attenuationConstant"),
      W("SpotLights", i, "attenuationLinear"),
      W("SpotLights", i, "attenuationExponential")>>

\* the writes to the camera, material and sun blocks
BlockWrites(p) ==
    <<W("CameraData", 0, "mvp"), W("CameraData", 0, "normal"),
      W("CameraData", 0, "world"), W("CameraData", 0, "eye"),
      WCount("numPointLights", 2)>>
    \o (IF p = "t21" THEN <<WCount("numSpotLights", 1)>> ELSE <<>>)
    \o <<W("Material", 0, "specularIntensity"),
         W("Material", 0, "specularPower"),
         W("SunData", 0, "color"), W("SunData", 0, "direction"),
         W("SunData", 0, "ambientIntensity"),
         W("SunData", 0, "diffuseIntensity")>>

\* a frame that sets up its first point light only
FrameWritesOneLight(p) ==
    BlockWrites(p) \o PointLightWrites(0)
    \o (IF p = "t21" THEN SpotLightWrites(0) ELSE <<>>)

\* the writes of one frame through the mapped pointers, in order
FrameWrites(p) ==
    BlockWrites(p) \o PointLightWrites(0) \o PointLightWrites(1)
    \o (IF p = "t21" THEN SpotLightWrites(0) ELSE <<>>)

\* what the count members may hold before the first write: the storage is
\* created without data
Garbage == {0, MAX_POINT_LIGHTS + 1}

InitLights ==
    /\ prog \in LightPrograms
    /\ InitMain
    /\ CamAtRest
    /\ alignArgs = <<0, 1>>
    /\ aligned = <<>>
    /\ uboPc = 0
    /\ uboAlignment = 0
    /\ shaderLayout = <<>>
    /\ hostLayout = <<>>
    /\ uboSizes = <<>>
    /\ uboStorage = 0
    /\ uboMapped = <<>>
    /\ uboBound = <<>>
    /\ KeysAtRest
    /\ GeoAtRest
    /\ TexAtRest
    /\ lightPc = 1
    /\ written = {}
    /\ lightFrame = 0
    /\ lightCounts \in [{a.count : a \in LightArrays(prog)} -> Garbage]

\* what no statement of the frame touches here
LightRest ==
    /\ UNCHANGED mainVars
    /\ UNCHANGED <<alignArgs, aligned>>
    /\ UNCHANGED uboVars
    /\ UNCHANGED camVars
    /\ UNCHANGED <<keyVars, geoVars, texVars>>

\* the next assignment through a mapped pointer
LightWrite ==
    /\ lightPc >= 1
    /\ lightPc <= Len(FrameWrites(prog))
    /\ LET w == FrameWrites(prog)[lightPc]
       IN  /\ written' = written \cup {<<w.block, w.light, w.member>>}
           /\ lightCounts' =
                 IF w.member \in DOMAIN lightCounts
                 THEN [lightCounts EXCEPT ![w.member] = w.value]
                 ELSE lightCounts
    /\ lightPc' = lightPc + 1
    /\ UNCHANGED lightFrame
    /\ LightRest

\* glClear ... glDrawElements: the draw call reads the blocks as they are
LightDraw ==
    /\ lightPc = Len(FrameWrites(prog)) + 1
    /\ lightPc' = lightPc + 1
    /\ UNCHANGED <<written, lightFrame, lightCounts>>
    /\ LightRest

\* glfwSwapBuffers, glfwPollEvents, and the loop starts its next iteration
LightNextFrame ==
    /\ lightPc = Len(FrameWrites(prog)) + 2
    /\ lightFrame < MaxFrames
    /\ lightFrame' = lightFrame + 1
    /\ lightPc' = 1
    /\ written' = {}
    /\ UNCHANGED lightCounts
    /\ LightRest

NextLights == LightWrite \/ LightDraw \/ LightNextFrame

SpecLights == InitLights /\ [][NextLights]_vars

\* the draw call of the frame has just been issued
LightsDrawn == lightPc = Len(FrameWrites(prog)) + 2

\* C24: in the lighting tutorials (20, 21), in every frame the light counts
\* written to the camera block are at most MAX_POINT_LIGHTS and
\* MAX_SPOT_LIGHTS, the host's MAX constants equal the shader's array sizes
\* (8), and every light with an index below its count has all its members
\* written in that frame before the draw call.
C24_LightsWrittenBeforeDraw ==
    \A a \in LightArrays(prog) :
       /\ a.max = a.shaderMax
       /\ a.max = 8
       /\ LightsDrawn =>
             /\ <<"CameraData", 0, a.count>> \in written
             /\ lightCounts[a.count] >= 0
             /\ lightCounts[a.count] <= a.max
             /\ \A i \in 0..(lightCounts[a.count] - 1) :
                   \A m \in LightMembers(a.ty) :
                      <<a.block, i, m>> \in written

\* part_001 (tutorial 21) right after the draw call of its second frame,
\* with two point lights and one spot light
C24_Witness ==
    /\ prog = "t21"
    /\ LightsDrawn
    /\ lightFrame = 1
    /\ lightCounts = [numPointLights |-> 2, numSpotLights |-> 1]
    /\ <<"SpotLights", 0, "cutoff">> \in written
    /\ <<"PointLights", 1, "position">> \in written

(* ---------------------------------------------------------------------- *)
(* gfx::Texture objects (SpecTexture)                                      *)
(* ---------------------------------------------------------------------- *)

\* Texture objects a run may have, and names glCreateTextures may hand out
MaxTextures == 3
MaxNames == 2

TextureObjects == 1..MaxTextures

\* storage that holds no Texture object (none constructed yet, or destroyed)
NoTexture == [alive |-> FALSE, handle |-> 0, target |-> 0]

\* what _target may hold after Texture(target, fileName), which never
\* assigns it
IndeterminateTargets == {1, 2}

\* Texture(GLenum target, const std::string& fileName), the file read and
\* glCreateTextures having stored name in _handle
Constructed(texs, o, name, garbage) ==
    [texs EXCEPT ![o] = [alive |-> TRUE, handle |-> name, target |-> garbage]]

\* a move constructor that leaves other as it was
MoveConstructedCopy(texs, dst, src) ==
    [texs EXCEPT ![dst] = [alive |-> TRUE, handle |-> texs[src].handle,
                           target |-> texs[src].target]]

\* Texture(Texture&& other): _handle = other._handle; _target =
\* other._target; other._handle = 0; other._target = 0
MoveConstructed(texs, dst, src) ==
    [texs EXCEPT ![dst] = [alive |-> TRUE, handle |-> texs[src].handle,
                           target |-> texs[src].target],
                 ![src] = [alive |-> TRUE, handle |-> 0, target |-> 0]]

\* operator=(Texture&& other): std::swap(other._handle, _handle);
\* std::swap(other._target, _target)
MoveAssigned(texs, dst, src) ==
    [texs EXCEPT ![dst] = texs[src], ![src] = texs[dst]]

\* ~Texture(): if (_handle) glDeleteTextures(1, &_handle)
DeletedBy(texs, o) == IF texs[o].handle # 0 THEN <<texs[o].handle>> ELSE <<>>

InitTexture ==
    /\ prog = "t16"
    /\ InitMain
    /\ CamAtRest
    /\ alignArgs = <<0, 1>>
    /\ aligned = <<>>
    /\ uboPc = 0
    /\ uboAlignment = 0
    /\ shaderLayout = <<>>
    /\ hostLayout = <<>>
    /\ uboSizes = <<>>
    /\ uboStorage = 0
    /\ uboMapped = <<>>
    /\ uboBound = <<>>
    /\ KeysAtRest
    /\ GeoAtRest
    /\ LightsAtRest
    /\ textures = [o \in TextureObjects |-> NoTexture]
    /\ genTextures = 0
    /\ deletedTextures = <<>>
    /\ texCall = <<"none">>

\* what no member of Texture touches
TexRest ==
    /\ UNCHANGED mainVars
    /\ UNCHANGED <<alignArgs, aligned>>
    /\ UNCHANGED uboVars
    /\ UNCHANGED camVars
    /\ UNCHANGED <<keyVars, geoVars, lightVars>>

\* Texture o(GL_TEXTURE_2D, fileName)
TexConstruct ==
    /\ genTextures < MaxNames
    /\ \E o \in TextureObjects, garbage \in IndeterminateTargets :
          /\ ~textures[o].alive
          /\ textures' = Constructed(textures, o, genTextures + 1, garbage)
          /\ texCall' = <<"construct", o, o>>
    /\ genTextures' = genTextures + 1
    /\ UNCHANGED deletedTextures
    /\ TexRest

\* Texture dst(std::move(src))
TexMoveConstruct ==
    /\ \E dst \in TextureObjects, src \in TextureObjects :
          /\ ~textures[dst].alive
          /\ textures[src].alive
          /\ textures' = MoveConstructed(textures, dst, src)
          /\ texCall' = <<"moveConstruct", dst, src>>
    /\ UNCHANGED <<genTextures, deletedTextures>>
    /\ TexRest

\* dst = std::move(src)
TexMoveAssign ==
    /\ \E dst \in TextureObjects, src \in TextureObjects :
          /\ textures[dst].alive
          /\ textures[src].alive
          /\ textures' = MoveAssigned(textures, dst, src)
          /\ texCall' = <<"moveAssign", dst, src>>
    /\ UNCHANGED <<genTextures, deletedTextures>>
    /\ TexRest

\* o goes out of scope or is deleted
TexDestroy ==
    /\ \E o \in TextureObjects :
          /\ textures[o].alive
          /\ deletedTextures' = deletedTextures \o DeletedBy(textures, o)
          /\ textures' = [textures EXCEPT ![o] = NoTexture]
          /\ texCall' = <<"destroy", o, o>>
    /\ UNCHANGED genTextures
    /\ TexRest

NextTexture == TexConstruct \/ TexMoveConstruct \/ TexMoveAssign \/ TexDestroy

SpecTexture == InitTexture /\ [][NextTexture]_vars

\* the live objects that hold name h
Holders(h) ==
    {o \in DOMAIN textures : textures[o].alive /\ textures[o].handle = h}

\* how often h was given to glDeleteTextures
Deletions(h) ==
    Cardinality({i \in 1..Len(deletedTextures) : deletedTextures[i] = h})

\* C25: after any sequence of move constructions, move assignments and
\* destructions each non-zero texture handle is held by at most one live
\* Texture and is given to glDeleteTextures exactly once, when its last
\* holder is destroyed; a Texture that was moved from by move construction
\* holds handle 0, and destroying a Texture that holds 0 deletes nothing.
C25_TextureOwnedOnce ==
    /\ [](\A h \in 1..genTextures :
            /\ Cardinality(Holders(h)) <= 1
            /\ Deletions(h) = IF Holders(h) = {} THEN 1 ELSE 0)
    /\ [](Deletions(0) = 0)
    /\ [][texCall'[1] = "moveConstruct" =>
            /\ textures'[texCall'[3]].alive
            /\ textures'[texCall'[3]].handle = 0
            /\ textures'[texCall'[2]].handle = textures[texCall'[3]].handle]_vars
    /\ [][texCall'[1] = "destroy" =>
            deletedTextures' =
                IF textures[texCall'[2]].handle = 0 THEN deletedTextures
                ELSE Append(deletedTextures, textures[texCall'[2]].handle)]_vars

\* two names created; one object was moved from and still lives holding 0,
\* name 2 was deleted by the destruction just made, name 1 has one holder
C25_Witness ==
    /\ texCall = <<"destroy", 1, 1>>
    /\ ~textures[1].alive
    /\ textures[2].alive /\ textures[2].handle = 1
    /\ textures[3].alive /\ textures[3].handle = 0
    /\ genTextures = 2
    /\ deletedTextures = <<2>>

====
